---- MODULE Spec2Model ----
(***************************************************************************)
(* Model of the Arabic candidate generators: the morphological filter      *)
(* (filter_arabic.py, gen_arabic_pairs.py), the stdin/stdout filter        *)
(* pipeline (filter_arabic.main) and the root-pattern engine               *)
(* (gen_from_roots.py, gen_arabic_passwords.py), the word enumeration of   *)
(* gen_arabic_pairs.generate_words, and the name/year/digit generators of  *)
(* gen_targeted.py and gen_targeted_arabic.py.                             *)
(*                                                                         *)
(* A Python str is a sequence of characters; a character is a TLA+ string  *)
(* naming the code point.                                                  *)
(***************************************************************************)
EXTENDS Integers, Sequences, FiniteSets, TLC

VARIABLES
    seq,          \* argument of the two is_likely_arabic_word calls
    fa_ret,       \* return channel of filter_arabic.is_likely_arabic_word
    gp_ret,       \* return channel of gen_arabic_pairs.is_likely_arabic_word
    stdin_data,   \* filter_arabic.main: the whole text of sys.stdin
    stdin_pos,    \* filter_arabic.main: number of characters already read
    stdout_data,  \* filter_arabic.main: the text written to sys.stdout
    main_pc,      \* filter_arabic.main: "loop" or "done"
    root,         \* argument of the two apply_pattern calls
    pattern,      \* argument of the two apply_pattern calls
    gr_ret,       \* return channel of gen_from_roots.apply_pattern
    pw_ret,       \* return channel of gen_arabic_passwords.apply_pattern
    gen_prog,     \* generator loop: "roots" (gen_from_roots.main) or
                  \* "passwords" (gen_arabic_passwords.generate_root_words)
    gen_roots,    \* generator loop: the list of roots
    gen_patterns, \* generator loop: the list of patterns
    gen_digits,   \* gen_from_roots.main: <<min_digits, max_digits>>
    gen_k,        \* generator loop: number of (root, pattern) pairs done
    gen_seen,     \* generator loop: the local set `seen`
    gen_out,      \* lines printed (roots) or words yielded (passwords)
    gen_pc,       \* generator loop: "loop" or "done"
    gen_run,      \* which invocation over the same arguments: 1 or 2
    gen_prev,     \* gen_out of the first invocation, once it has ended
    lr_file,      \* load_roots: the lines that iterating the file yields
    lr_i,         \* load_roots: number of lines already read
    lr_roots,     \* load_roots: the local list `roots`
    lr_pc,        \* load_roots: "loop" or "returned"
    ds_prog,      \* digit suffixes: "roots" (gen_from_roots) or "pairs"
    ds_range,     \* digit suffixes: <<min_digits, max_digits>>
    ds_count,     \* digit suffixes: digit_count, <<>> until computed
    ds_gen,       \* digit suffixes: the frame of generate_digit_suffixes
    ds_out,       \* digit suffixes: what generate_digit_suffixes has yielded
    ds_pc,        \* digit suffixes: "count", "yield" or "done"
    cli_prog,     \* command line: "roots", "pairs" or "passwords"
    cli_args,     \* command line: the parsed arguments `args`
    cli_pc,       \* command line: "start", "load", "estimate", "words",
                  \* "loop" or "exit"
    cli_range,    \* command line: <<min_digits, max_digits>>, <<>> before
    cli_list,     \* command line: `roots` (roots), `words` (passwords)
    cli_k,        \* command line: number of passes of the loops done
    cli_seen,     \* command line: the set `seen`
    cli_skipped,  \* gen_from_roots.main: the counter `skipped`
    cli_word,     \* command line: <<word>> inside the suffix loop, else <<>>
    cli_frame,    \* command line: the frame of generate_digit_suffixes
    cli_stdout,   \* command line: the lines written to stdout
    cli_stderr,   \* command line: the lines written to stderr
    cli_exit,     \* command line: <<status>> once the process has ended
    gw_length,    \* generate_words: the argument `length`
    gw_k,         \* generate_words: passes of the loop over prefixes done
    gw_batch,     \* generate_words: the words yielded in the latest pass
    gw_target,    \* generate_words: a string looked for among the yields
    gw_hit,       \* generate_words: gw_target has been yielded
    gw_pc,        \* generate_words: "loop" or "done"
    tg_prog,      \* targeted: "targeted" or "targeted_arabic"
    tg_args,      \* targeted: the parsed arguments `args`
    tg_pc,        \* targeted: "start", "run" or "exit"
    tg_names,     \* targeted: the list `names`
    tg_gens,      \* targeted: the names of the list `generators`
    tg_g,         \* targeted: number of generators run to their end
    tg_seen,      \* targeted: the set `seen`
    tg_yielded,   \* targeted: what the latest generator yielded
    tg_printed,   \* targeted: the lines printed during the latest generator
    tg_count,     \* targeted: the counter `count`
    tg_stderr,    \* targeted: the lines written to stderr
    tg_exit       \* targeted: <<status>> once the process has ended

vars == <<seq, fa_ret, gp_ret, stdin_data, stdin_pos, stdout_data, main_pc,
          root, pattern, gr_ret, pw_ret,
          gen_prog, gen_roots, gen_patterns, gen_digits, gen_k, gen_seen,
          gen_out, gen_pc, gen_run, gen_prev,
          lr_file, lr_i, lr_roots, lr_pc,
          ds_prog, ds_range, ds_count, ds_gen, ds_out, ds_pc,
          cli_prog, cli_args, cli_pc, cli_range, cli_list, cli_k, cli_seen,
          cli_skipped, cli_word, cli_frame, cli_stdout, cli_stderr, cli_exit,
          gw_length, gw_k, gw_batch, gw_target, gw_hit, gw_pc,
          tg_prog, tg_args, tg_pc, tg_names, tg_gens, tg_g, tg_seen,
          tg_yielded, tg_printed, tg_count, tg_stderr, tg_exit>>

filter_vars == <<seq, fa_ret, gp_ret>>
main_vars == <<stdin_data, stdin_pos, stdout_data, main_pc>>
pattern_vars == <<root, pattern, gr_ret, pw_ret>>
gen_vars == <<gen_prog, gen_roots, gen_patterns, gen_digits, gen_k, gen_seen,
              gen_out, gen_pc, gen_run, gen_prev>>

load_vars == <<lr_file, lr_i, lr_roots, lr_pc>>

\* The variables of the components that follow the generator loops.
digit_vars == <<ds_prog, ds_range, ds_count, ds_gen, ds_out, ds_pc>>
cli_vars ==
    <<cli_prog, cli_args, cli_pc, cli_range, cli_list, cli_k, cli_seen,
      cli_skipped, cli_word, cli_frame, cli_stdout, cli_stderr, cli_exit>>
words_vars == <<gw_length, gw_k, gw_batch, gw_target, gw_hit, gw_pc>>
targeted_vars ==
    <<tg_prog, tg_args, tg_pc, tg_names, tg_gens, tg_g, tg_seen, tg_yielded,
      tg_printed, tg_count, tg_stderr, tg_exit>>
last_vars == <<words_vars, targeted_vars>>
later_vars == <<load_vars, digit_vars, cli_vars, last_vars>>

\* The variables of the components added after the first three.
rest_vars == <<gen_vars, later_vars>>

\* A component that is not running.
FilterOff == seq = <<>> /\ fa_ret = <<>> /\ gp_ret = <<>>
MainOff ==
    stdin_data = <<>> /\ stdin_pos = 0 /\ stdout_data = <<>> /\ main_pc = "off"
PatternOff == root = <<>> /\ pattern = <<>> /\ gr_ret = <<>> /\ pw_ret = <<>>
GenOff ==
    /\ gen_prog = "off" /\ gen_roots = <<>> /\ gen_patterns = <<>>
    /\ gen_digits = <<0, 0>> /\ gen_k = 0 /\ gen_seen = {} /\ gen_out = <<>>
    /\ gen_pc = "off" /\ gen_run = 0 /\ gen_prev = <<>>
LoadOff == lr_file = <<>> /\ lr_i = 0 /\ lr_roots = <<>> /\ lr_pc = "off"
DigitOff ==
    /\ ds_prog = "off" /\ ds_range = <<0, 0>> /\ ds_count = <<>>
    /\ ds_gen = <<"off">> /\ ds_out = <<>> /\ ds_pc = "off"
CliOff ==
    /\ cli_prog = "off" /\ cli_args = <<>> /\ cli_pc = "off"
    /\ cli_range = <<>> /\ cli_list = <<>> /\ cli_k = 0 /\ cli_seen = {}
    /\ cli_skipped = 0 /\ cli_word = <<>> /\ cli_frame = <<"off">>
    /\ cli_stdout = <<>> /\ cli_stderr = <<>> /\ cli_exit = <<>>
WordsOff ==
    /\ gw_length = 0 /\ gw_k = 0 /\ gw_batch = <<>> /\ gw_target = <<>>
    /\ gw_hit = FALSE /\ gw_pc = "off"
TargetedOff ==
    /\ tg_prog = "off" /\ tg_args = <<>> /\ tg_pc = "off" /\ tg_names = <<>>
    /\ tg_gens = <<>> /\ tg_g = 0 /\ tg_seen = {} /\ tg_yielded = {}
    /\ tg_printed = {} /\ tg_count = 0 /\ tg_stderr = <<>> /\ tg_exit = <<>>
LastOff == WordsOff /\ TargetedOff
LaterOff == LoadOff /\ DigitOff /\ CliOff /\ LastOff
RestOff == GenOff /\ LaterOff

(***************************************************************************)
(* Characters.                                                             *)
(***************************************************************************)
HAMZA == "hamza"                \* U+0621
WAW_HAMZA == "waw_hamza"        \* U+0624
YEH_HAMZA == "yeh_hamza"        \* U+0626
ALEF == "alef"                  \* U+0627
BEH == "beh"                    \* U+0628
TEH_MARBUTA == "teh_marbuta"    \* U+0629
TEH == "teh"                    \* U+062A
AIN == "ain"                    \* U+0639
FEH == "feh"                    \* U+0641
QAF == "qaf"                    \* U+0642
KAF == "kaf"                    \* U+0643
LAM == "lam"                    \* U+0644
MEEM == "meem"                  \* U+0645
WAW == "waw"                    \* U+0648
ALEF_MAKSURA == "alef_maksura"  \* U+0649
YEH == "yeh"                    \* U+064A
SHADDA == "shadda"              \* U+0651
NL == "nl"                      \* U+000A
TAB == "tab"                    \* U+0009
SPACE == "space"                \* U+0020
HASH == "hash"                  \* U+0023
DASH == "hyphen"                \* U+002D
AT == "at"                      \* U+0040
LETTER_X == "x"                 \* U+0078
ALEF_MADDA == "alef_madda"              \* U+0622
ALEF_HAMZA_ABOVE == "alef_hamza_above"  \* U+0623
ALEF_HAMZA_BELOW == "alef_hamza_below"  \* U+0625
THEH == "theh"                  \* U+062B
JEEM == "jeem"                  \* U+062C
HAH == "hah"                    \* U+062D
KHAH == "khah"                  \* U+062E
DAL == "dal"                    \* U+062F
THAL == "thal"                  \* U+0630
REH == "reh"                    \* U+0631
ZAIN == "zain"                  \* U+0632
SEEN == "seen"                  \* U+0633
SHEEN == "sheen"                \* U+0634
SAD == "sad"                    \* U+0635
DAD == "dad"                    \* U+0636
TAH == "tah"                    \* U+0637
ZAH == "zah"                    \* U+0638
GHAIN == "ghain"                \* U+063A
NOON == "noon"                  \* U+0646
HEH == "heh"                    \* U+0647

(***************************************************************************)
(* Bounds.                                                                 *)
(***************************************************************************)
MaxLen == 4         \* longest argument of is_likely_arabic_word
MaxStdin == 5       \* longest text on standard input
MaxPatLen == 3      \* longest enumerated pattern
MaxRootLen == 4     \* longest enumerated root
MaxRoots == 2       \* longest list of roots given to the generator loop
MaxPatterns == 2    \* longest list of patterns given to the generator loop

\* All sequences over S of length at most n.
StrUpTo(S, n) == UNION {[1..k -> S] : k \in 0..n}

\* The letters the filter's rules distinguish, and one plain consonant.
FilterAlphabet ==
    {ALEF, WAW, YEH, HAMZA, TEH_MARBUTA, ALEF_MAKSURA, WAW_HAMZA, YEH_HAMZA, BEH}

(***************************************************************************)
(* Python string primitives.                                               *)
(***************************************************************************)
\* Python's clamping of a slice index to 0..len.
PyIndex(i, len) ==
    IF i < 0 THEN (IF i + len < 0 THEN 0 ELSE i + len)
    ELSE (IF i > len THEN len ELSE i)

\* s[start:stop] with 0-based, possibly negative indices.
PySlice(s, start, stop) ==
    SubSeq(s, PyIndex(start, Len(s)) + 1, PyIndex(stop, Len(s)))

\* sub in s, for strings: sub is a contiguous substring of s.
InStr(sub, s) ==
    \E i \in 1..(Len(s) - Len(sub) + 1) : SubSeq(s, i, i + Len(sub) - 1) = sub

(***************************************************************************)
(* filter_arabic.py                                                        *)
(***************************************************************************)
fa_VOWELS == {ALEF, WAW, YEH}

\* Mutant: the doubled yeh is missing from the table.
fa_BAD_DOUBLES_no_yeh == {<<ALEF, ALEF>>, <<WAW, WAW>>, <<HAMZA, HAMZA>>}

fa_BAD_DOUBLES == {<<ALEF, ALEF>>, <<WAW, WAW>>, <<YEH, YEH>>, <<HAMZA, HAMZA>>}

\* lines 44-52: the vowel check fails.
fa_no_vowel(s) ==
    /\ Len(s) >= 4
    /\ ~ \E k \in 1..Len(s) : s[k] \in fa_VOWELS

\* lines 54-57: a bad double occurs.
fa_bad_double(s) == \E bad \in fa_BAD_DOUBLES : InStr(bad, s)

\* Mutant: the slice seq[1:] in place of seq[1:-1].
fa_hamza_middle_open_slice(s) ==
    Len(s) > 2 /\ InStr(<<HAMZA>>, PySlice(s, 1, Len(s)))

\* lines 59-61: hamza in the middle.
fa_hamza_middle(s) == Len(s) > 2 /\ InStr(<<HAMZA>>, PySlice(s, 1, -1))

\* Mutant: the alef maksura test is forgotten.
fa_nonfinal_teh_only(s) == InStr(<<TEH_MARBUTA>>, PySlice(s, 0, -1))

\* lines 63-65: teh marbuta or alef maksura before the end.
fa_nonfinal(s) ==
    \/ InStr(<<TEH_MARBUTA>>, PySlice(s, 0, -1))
    \/ InStr(<<ALEF_MAKSURA>>, PySlice(s, 0, -1))

\* Mutant: only waw-hamza is refused at the start.
fa_bad_first_waw_only(s) == InStr(<<s[1]>>, <<WAW_HAMZA>>)

\* lines 67-70: waw-hamza or yeh-hamza at the start.
fa_bad_first(s) == InStr(<<s[1]>>, <<WAW_HAMZA, YEH_HAMZA>>)

filter_arabic_is_likely_arabic_word(s) ==
    IF s = <<>> THEN FALSE
    ELSE IF fa_no_vowel(s) THEN FALSE
    ELSE IF fa_bad_double(s) THEN FALSE
    ELSE IF fa_hamza_middle(s) THEN FALSE
    ELSE IF fa_nonfinal(s) THEN FALSE
    ELSE IF fa_bad_first(s) THEN FALSE
    ELSE TRUE

(***************************************************************************)
(* gen_arabic_pairs.py                                                     *)
(***************************************************************************)
gp_VOWELS == {ALEF, WAW, YEH}

gp_BAD_DOUBLES == {<<ALEF, ALEF>>, <<WAW, WAW>>, <<YEH, YEH>>, <<HAMZA, HAMZA>>}

\* Mutant: length > 4 in place of length >= 4.
gp_no_vowel_off_by_one(s) ==
    /\ Len(s) > 4
    /\ ~ \E k \in 1..Len(s) : s[k] \in gp_VOWELS

\* lines 53-56
gp_no_vowel(s) ==
    /\ Len(s) >= 4
    /\ ~ \E k \in 1..Len(s) : s[k] \in gp_VOWELS

\* Mutant: the doubled hamza is not looked for.
gp_bad_double_no_hamza(s) ==
    \E bad \in gp_BAD_DOUBLES \ {<<HAMZA, HAMZA>>} : InStr(bad, s)

\* lines 58-61
gp_bad_double(s) == \E bad \in gp_BAD_DOUBLES : InStr(bad, s)

\* Mutant: length > 3 in place of length > 2.
gp_hamza_middle_off_by_one(s) ==
    Len(s) > 3 /\ InStr(<<HAMZA>>, PySlice(s, 1, -1))

\* lines 63-65
gp_hamza_middle(s) == Len(s) > 2 /\ InStr(<<HAMZA>>, PySlice(s, 1, -1))

gen_arabic_pairs_is_likely_arabic_word(s) ==
    IF gp_no_vowel(s) THEN FALSE
    ELSE IF gp_bad_double(s) THEN FALSE
    ELSE IF gp_hamza_middle(s) THEN FALSE
    ELSE TRUE

(***************************************************************************)
(* Calls of the two filters on one argument.                               *)
(***************************************************************************)
FilterIdle == MainOff /\ PatternOff /\ RestOff

InitFilter ==
    /\ seq \in StrUpTo(FilterAlphabet, MaxLen)
    /\ fa_ret = <<>>
    /\ gp_ret = <<>>
    /\ FilterIdle

CallFilterArabic ==
    /\ fa_ret = <<>>
    /\ fa_ret' = <<filter_arabic_is_likely_arabic_word(seq)>>
    /\ UNCHANGED <<seq, gp_ret, main_vars, pattern_vars, rest_vars>>

CallGenArabicPairs ==
    /\ gp_ret = <<>>
    /\ gp_ret' = <<gen_arabic_pairs_is_likely_arabic_word(seq)>>
    /\ UNCHANGED <<seq, fa_ret, main_vars, pattern_vars, rest_vars>>

NextFilter == CallFilterArabic \/ CallGenArabicPairs

SpecFilter == InitFilter /\ [][NextFilter]_vars

(***************************************************************************)
(* filter_arabic.main: the stdin -> stdout pipeline.                       *)
(***************************************************************************)
MainAlphabet == {NL, ALEF, HAMZA, BEH}

\* The line that `for line in sys.stdin` yields from offset pos: up to and
\* including the next newline, or the rest of the text when there is none.
ReadLine(data, pos) ==
    LET nls == {k \in (pos + 1)..Len(data) : data[k] = NL}
        end == IF nls = {} THEN Len(data)
               ELSE CHOOSE k \in nls : \A j \in nls : k <= j
    IN  SubSeq(data, pos + 1, end)

\* str.rstrip('\n'): every trailing newline is removed.
RECURSIVE RStripNl(_)
RStripNl(line) ==
    IF line # <<>> /\ line[Len(line)] = NL
    THEN RStripNl(SubSeq(line, 1, Len(line) - 1))
    ELSE line

\* Mutant: the stripped word is written in place of the line.
main_body_writes_word(line) ==
    LET word == RStripNl(line)
    IN  IF filter_arabic_is_likely_arabic_word(word) THEN word ELSE <<>>

\* The loop body: what one iteration writes to sys.stdout.
main_body(line) ==
    LET word == RStripNl(line)
    IN  IF filter_arabic_is_likely_arabic_word(word) THEN line ELSE <<>>

MainIdle == FilterOff /\ PatternOff /\ RestOff

InitMain ==
    /\ stdin_data \in StrUpTo(MainAlphabet, MaxStdin)
    /\ stdin_pos = 0
    /\ stdout_data = <<>>
    /\ main_pc = "loop"
    /\ MainIdle

\* One iteration of `for line in sys.stdin`.
MainIteration ==
    /\ main_pc = "loop"
    /\ stdin_pos < Len(stdin_data)
    /\ LET line == ReadLine(stdin_data, stdin_pos)
       IN  /\ stdout_data' = stdout_data \o main_body(line)
           /\ stdin_pos' = stdin_pos + Len(line)
    /\ UNCHANGED <<stdin_data, main_pc, filter_vars, pattern_vars, rest_vars>>

\* End of input: the loop, and main, end.
MainEOF ==
    /\ main_pc = "loop"
    /\ stdin_pos = Len(stdin_data)
    /\ main_pc' = "done"
    /\ UNCHANGED <<stdin_data, stdin_pos, stdout_data, filter_vars, pattern_vars, rest_vars>>

NextMain == MainIteration \/ MainEOF

SpecMain == InitMain /\ [][NextMain]_vars

(***************************************************************************)
(* apply_pattern of gen_from_roots.py and gen_arabic_passwords.py.         *)
(* A result is None or a str.                                              *)
(***************************************************************************)
None == [kind |-> "None"]
Str(s) == [kind |-> "str", val |-> s]

\* Mutant: no gemination branch, the marker is appended like a literal.
gr_step_no_gemination(rt, c, result) ==
    IF c = FEH THEN Append(result, rt[1])
    ELSE IF c = AIN THEN Append(result, rt[2])
    ELSE IF c = LAM THEN Append(result, rt[3])
    ELSE Append(result, c)

\* Mutant: the third slot marker emits the second root letter.
gr_step_wrong_slot(rt, c, result) ==
    IF c = FEH THEN Append(result, rt[1])
    ELSE IF c = AIN THEN Append(result, rt[2])
    ELSE IF c = LAM THEN Append(result, rt[2])
    ELSE IF c = SHADDA
         THEN (IF result # <<>> THEN Append(result, result[Len(result)]) ELSE result)
    ELSE Append(result, c)

\* Mutant: no `if result:` guard; a marker with nothing before it is
\* appended like a literal.
gr_step_unguarded(rt, c, result) ==
    IF c = FEH THEN Append(result, rt[1])
    ELSE IF c = AIN THEN Append(result, rt[2])
    ELSE IF c = LAM THEN Append(result, rt[3])
    ELSE IF c = SHADDA
         THEN (IF result # <<>> THEN Append(result, result[Len(result)])
               ELSE Append(result, c))
    ELSE Append(result, c)

\* gen_from_roots.apply_pattern, one pass of the while loop on symbol c.
gr_step(rt, c, result) ==
    IF c = FEH THEN Append(result, rt[1])
    ELSE IF c = AIN THEN Append(result, rt[2])
    ELSE IF c = LAM THEN Append(result, rt[3])
    ELSE IF c = SHADDA
         THEN (IF result # <<>> THEN Append(result, result[Len(result)]) ELSE result)
    ELSE Append(result, c)

\* The while loop from index i (0-based) with the list built so far.
RECURSIVE gr_loop(_, _, _, _)
gr_loop(rt, pat, i, result) ==
    IF i < Len(pat)
    THEN gr_loop(rt, pat, i + 1, gr_step(rt, pat[i + 1], result))
    ELSE result

\* Mutant: a root of the wrong length is handed back as the word.
gr_apply_pattern_echo_root(rt, pat) ==
    IF Len(rt) # 3 THEN Str(rt) ELSE Str(gr_loop(rt, pat, 0, <<>>))

gen_from_roots_apply_pattern(rt, pat) ==
    IF Len(rt) # 3 THEN None ELSE Str(gr_loop(rt, pat, 0, <<>>))

\* gen_arabic_passwords.apply_pattern, one pass of the for loop on symbol c.
pw_step(rt, c, result) ==
    IF c = FEH THEN Append(result, rt[1])
    ELSE IF c = AIN THEN Append(result, rt[2])
    ELSE IF c = LAM THEN Append(result, rt[3])
    ELSE Append(result, c)

RECURSIVE pw_loop(_, _, _, _)
pw_loop(rt, pat, i, result) ==
    IF i < Len(pat)
    THEN pw_loop(rt, pat, i + 1, pw_step(rt, pat[i + 1], result))
    ELSE result

\* Mutant: len(root) < 3 in place of len(root) != 3; root slots past the end
\* of a list are not reached, a longer root's extra letters are ignored.
pw_apply_pattern_short_only(rt, pat) ==
    IF Len(rt) < 3 THEN None ELSE Str(pw_loop(rt, pat, 0, <<>>))

gen_arabic_passwords_apply_pattern(rt, pat) ==
    IF Len(rt) # 3 THEN None ELSE Str(pw_loop(rt, pat, 0, <<>>))

PatternAlphabet == {FEH, AIN, LAM, SHADDA, ALEF}
RootAlphabet == {KAF, LAM}

Roots ==
    StrUpTo(RootAlphabet, MaxRootLen)
        \cup {<<KAF, TEH, BEH>>, <<FEH, AIN, LAM>>, <<AIN, LAM, FEH>>,
              <<MEEM, LAM, SHADDA>>}

Patterns ==
    StrUpTo(PatternAlphabet, MaxPatLen)
        \cup {<<FEH, ALEF, AIN, LAM>>, <<MEEM, FEH, AIN, WAW, LAM>>,
              <<FEH, AIN, SHADDA, LAM>>}

PatternIdle == FilterOff /\ MainOff /\ RestOff

InitPattern ==
    /\ root \in Roots
    /\ pattern \in Patterns
    /\ gr_ret = <<>>
    /\ pw_ret = <<>>
    /\ PatternIdle

CallApplyPatternRoots ==
    /\ gr_ret = <<>>
    /\ gr_ret' = <<gen_from_roots_apply_pattern(root, pattern)>>
    /\ UNCHANGED <<root, pattern, pw_ret, filter_vars, main_vars, rest_vars>>

CallApplyPatternPasswords ==
    /\ pw_ret = <<>>
    /\ pw_ret' = <<gen_arabic_passwords_apply_pattern(root, pattern)>>
    /\ UNCHANGED <<root, pattern, gr_ret, filter_vars, main_vars, rest_vars>>

NextPattern == CallApplyPatternRoots \/ CallApplyPatternPasswords

SpecPattern == InitPattern /\ [][NextPattern]_vars

(***************************************************************************)
(* Digit suffixes: generate_digit_suffixes of gen_from_roots.py and        *)
(* gen_arabic_pairs.py.                                                    *)
(***************************************************************************)
\* The str '0123456789'.
DIGITS == <<"0", "1", "2", "3", "4", "5", "6", "7", "8", "9">>

\* b ** n
RECURSIVE PyPow(_, _)
PyPow(b, n) == IF n = 0 THEN 1 ELSE b * PyPow(b, n - 1)

\* The j-th (0-based) tuple of itertools.product(chars, repeat=n), joined:
\* the rightmost position advances fastest.
RECURSIVE ProductAt(_, _, _)
ProductAt(chars, n, j) ==
    IF n = 0 THEN <<>>
    ELSE <<chars[(j \div PyPow(Len(chars), n - 1)) + 1]>>
             \o ProductAt(chars, n - 1, j % PyPow(Len(chars), n - 1))

\* itertools.product(chars, repeat=n), each tuple joined.
Product(chars, n) ==
    [j \in 1..PyPow(Len(chars), n) |-> ProductAt(chars, n, j - 1)]

PyMax(a, b) == IF a >= b THEN a ELSE b

\* The suffixes of the lengths num_digits, ..., stop - 1, in that order.
RECURSIVE SuffixesFrom(_, _)
SuffixesFrom(num_digits, stop) ==
    IF num_digits < stop
    THEN Product(DIGITS, num_digits) \o SuffixesFrom(num_digits + 1, stop)
    ELSE <<>>

\* Mutant: range(min_digits, max_digits + 1), without max(1, ...).
gr_generate_digit_suffixes_from_min(min_digits, max_digits) ==
    (IF min_digits = 0 THEN << <<>> >> ELSE <<>>)
        \o SuffixesFrom(min_digits, max_digits + 1)

\* Everything gen_from_roots.generate_digit_suffixes yields, in order.
gr_generate_digit_suffixes(min_digits, max_digits) ==
    (IF min_digits = 0 THEN << <<>> >> ELSE <<>>)
        \o SuffixesFrom(PyMax(1, min_digits), max_digits + 1)

\* One next() on the generator generate_digit_suffixes, from the frame
\* <<"start">> or <<"loop", num_digits, j>> (j tuples of the current product
\* consumed), the loop starting at num_digits = first: what is yielded
\* (<<>> for StopIteration) and the frame left.
DigitSuffixNext(frame, min_digits, max_digits, first) ==
    IF frame[1] = "start" /\ min_digits = 0
    THEN [yielded |-> << <<>> >>, frame |-> <<"loop", first, 0>>]
    ELSE LET num_digits == IF frame[1] = "start" THEN first ELSE frame[2]
             j == IF frame[1] = "start" THEN 0 ELSE frame[3]
         IN  IF num_digits < max_digits + 1
             THEN [yielded |-> <<ProductAt(DIGITS, num_digits, j)>>,
                   frame |-> IF j + 1 < PyPow(Len(DIGITS), num_digits)
                             THEN <<"loop", num_digits, j + 1>>
                             ELSE <<"loop", num_digits + 1, 0>>]
             ELSE [yielded |-> <<>>, frame |-> <<"end">>]

\* next() on gen_from_roots.generate_digit_suffixes
gr_generate_digit_suffixes_next(frame, min_digits, max_digits) ==
    DigitSuffixNext(frame, min_digits, max_digits, PyMax(1, min_digits))

\* Mutant: range(min_digits, max_digits + 1), without max(1, ...).
gp_generate_digit_suffixes_next_from_min(frame, min_digits, max_digits) ==
    DigitSuffixNext(frame, min_digits, max_digits, min_digits)

\* next() on gen_arabic_pairs.generate_digit_suffixes
gp_generate_digit_suffixes_next(frame, min_digits, max_digits) ==
    DigitSuffixNext(frame, min_digits, max_digits, PyMax(1, min_digits))

\* `for d in range(d, stop): digit_count += 10 ** d`
RECURSIVE DigitCountLoop(_, _, _)
DigitCountLoop(d, stop, digit_count) ==
    IF d < stop
    THEN DigitCountLoop(d + 1, stop, digit_count + PyPow(10, d))
    ELSE digit_count

\* digit_count of gen_from_roots.main
gr_digit_count(min_digits, max_digits) ==
    DigitCountLoop(PyMax(1, min_digits), max_digits + 1,
                   IF min_digits = 0 THEN 1 ELSE 0)

\* digit_count of gen_arabic_pairs.estimate_candidates
gp_digit_count(min_digits, max_digits) ==
    DigitCountLoop(PyMax(1, min_digits), max_digits + 1,
                   IF min_digits = 0 THEN 1 ELSE 0)

(***************************************************************************)
(* The generator loops: gen_from_roots.main (lines 236-251) and            *)
(* gen_arabic_passwords.generate_root_words.                               *)
(***************************************************************************)
gr_BAD_DOUBLES == {<<ALEF, ALEF>>, <<WAW, WAW>>, <<YEH, YEH>>, <<HAMZA, HAMZA>>}

gr_has_bad_doubles(word) ==
    \/ \E bad \in gr_BAD_DOUBLES : InStr(bad, word)
    \/ \E i \in 0..(Len(word) - 2) :
          /\ word[i + 1] = word[i + 2]
          /\ InStr(<<word[i + 1]>>, <<ALEF, WAW, YEH, HAMZA>>)

pw_BAD_DOUBLES == {<<ALEF, ALEF>>, <<WAW, WAW>>, <<YEH, YEH>>, <<HAMZA, HAMZA>>}

pw_has_bad_doubles(word) ==
    \/ \E bad \in pw_BAD_DOUBLES : InStr(bad, word)
    \/ \E i \in 0..(Len(word) - 2) :
          /\ word[i + 1] = word[i + 2]
          /\ InStr(<<word[i + 1]>>, <<ALEF, WAW, YEH, HAMZA>>)

\* Truth value of an apply_pattern result: None and '' are false.
Truthy(r) == r.kind = "str" /\ r.val # <<>>

\* Mutant: the test `word not in seen` is missing.
gr_main_body_no_seen_test(rt, pat, seen, out, digits) ==
    LET word == gen_from_roots_apply_pattern(rt, pat)
    IN  IF Truthy(word)
        THEN IF gr_has_bad_doubles(word.val)
             THEN [seen |-> seen \cup {word.val}, out |-> out]
             ELSE LET suffixes ==
                          gr_generate_digit_suffixes(digits[1], digits[2])
                  IN  [seen |-> seen \cup {word.val},
                       out |-> out \o [j \in 1..Len(suffixes) |->
                                          word.val \o suffixes[j]]]
        ELSE [seen |-> seen, out |-> out]

\* The body of gen_from_roots.main's inner loop for one (root, pattern):
\* the new `seen` and the new standard output.
gr_main_body(rt, pat, seen, out, digits) ==
    LET word == gen_from_roots_apply_pattern(rt, pat)
    IN  IF Truthy(word) /\ word.val \notin seen
        THEN IF gr_has_bad_doubles(word.val)
             THEN [seen |-> seen \cup {word.val}, out |-> out]
             ELSE LET suffixes ==
                          gr_generate_digit_suffixes(digits[1], digits[2])
                  IN  [seen |-> seen \cup {word.val},
                       out |-> out \o [j \in 1..Len(suffixes) |->
                                          word.val \o suffixes[j]]]
        ELSE [seen |-> seen, out |-> out]

\* The body of generate_root_words' inner loop for one (root, pattern):
\* the new `seen` and the words yielded so far.
pw_generate_root_words_body(rt, pat, seen, out) ==
    LET word == gen_arabic_passwords_apply_pattern(rt, pat)
    IN  IF Truthy(word) /\ word.val \notin seen
           /\ ~ pw_has_bad_doubles(word.val)
        THEN [seen |-> seen \cup {word.val}, out |-> Append(out, word.val)]
        ELSE [seen |-> seen, out |-> out]

\* The roots and patterns the generator loop is run over.
GenRootSet == {<<KAF, TEH, BEH>>, <<QAF, WAW, LAM>>, <<KAF, TEH>>}
GenPatternSet ==
    {<<FEH, AIN, LAM>>, <<FEH, AIN, WAW, LAM>>, <<MEEM, FEH, AIN, LAM>>,
     <<FEH, AIN, SHADDA, LAM>>}
\* The ranges --digits 0 (the default), 0-1 and 1-0.
GenDigitRanges == {<<0, 0>>, <<0, 1>>, <<1, 0>>}

GenIdle == FilterOff /\ MainOff /\ PatternOff /\ LaterOff
gen_others == <<filter_vars, main_vars, pattern_vars, later_vars>>

InitGen ==
    /\ gen_prog \in {"roots", "passwords"}
    /\ gen_roots \in StrUpTo(GenRootSet, MaxRoots)
    /\ gen_patterns \in StrUpTo(GenPatternSet, MaxPatterns)
    /\ gen_digits \in (IF gen_prog = "roots" THEN GenDigitRanges ELSE {<<0, 0>>})
    /\ gen_k = 0
    /\ gen_seen = {}
    /\ gen_out = <<>>
    /\ gen_pc = "loop"
    /\ gen_run = 1
    /\ gen_prev = <<>>
    /\ GenIdle

\* The k-th (0-based) pair of `for root in roots: for pattern in patterns`.
GenRootAt(k) == gen_roots[(k \div Len(gen_patterns)) + 1]
GenPatternAt(k) == gen_patterns[(k % Len(gen_patterns)) + 1]

\* One pass of the inner loop of gen_from_roots.main.
GenStepRoots ==
    /\ gen_prog = "roots"
    /\ gen_pc = "loop"
    /\ gen_k < Len(gen_roots) * Len(gen_patterns)
    /\ LET r == gr_main_body(GenRootAt(gen_k), GenPatternAt(gen_k),
                             gen_seen, gen_out, gen_digits)
       IN  gen_seen' = r.seen /\ gen_out' = r.out
    /\ gen_k' = gen_k + 1
    /\ UNCHANGED <<gen_prog, gen_roots, gen_patterns, gen_digits, gen_pc,
                   gen_run, gen_prev, gen_others>>

\* One pass of the inner loop of generate_root_words.
GenStepPasswords ==
    /\ gen_prog = "passwords"
    /\ gen_pc = "loop"
    /\ gen_k < Len(gen_roots) * Len(gen_patterns)
    /\ LET r == pw_generate_root_words_body(GenRootAt(gen_k), GenPatternAt(gen_k),
                                            gen_seen, gen_out)
       IN  gen_seen' = r.seen /\ gen_out' = r.out
    /\ gen_k' = gen_k + 1
    /\ UNCHANGED <<gen_prog, gen_roots, gen_patterns, gen_digits, gen_pc,
                   gen_run, gen_prev, gen_others>>

\* The loops are exhausted: the generator, or main, ends.
GenFinish ==
    /\ gen_pc = "loop"
    /\ gen_k = Len(gen_roots) * Len(gen_patterns)
    /\ gen_pc' = "done"
    /\ UNCHANGED <<gen_prog, gen_roots, gen_patterns, gen_digits, gen_k,
                   gen_seen, gen_out, gen_run, gen_prev,
                   gen_others>>

\* Mutant: `seen` is a module-level set that outlives the invocation.
gen_kept_seen(old) == old

\* The `seen` a new invocation starts with: a fresh local set.
gen_fresh_seen(old) == {}

\* A second invocation over the same roots and patterns.
GenInvokeAgain ==
    /\ gen_pc = "done"
    /\ gen_run = 1
    /\ gen_run' = 2
    /\ gen_prev' = gen_out
    /\ gen_seen' = gen_fresh_seen(gen_seen)
    /\ gen_out' = <<>>
    /\ gen_k' = 0
    /\ gen_pc' = "loop"
    /\ UNCHANGED <<gen_prog, gen_roots, gen_patterns, gen_digits,
                   gen_others>>

NextGen == GenStepRoots \/ GenStepPasswords \/ GenFinish \/ GenInvokeAgain

SpecGen == InitGen /\ [][NextGen]_vars

(***************************************************************************)
(* gen_from_roots.load_roots.                                              *)
(***************************************************************************)
MaxLineLen == 4
MaxFileLines == 3

\* The characters of the model for which str.isspace() holds.
PyWhitespace == {SPACE, TAB, NL}

RECURSIVE PyLStrip(_)
PyLStrip(s) ==
    IF s # <<>> /\ s[1] \in PyWhitespace THEN PyLStrip(Tail(s)) ELSE s

RECURSIVE PyRStrip(_)
PyRStrip(s) ==
    IF s # <<>> /\ s[Len(s)] \in PyWhitespace
    THEN PyRStrip(SubSeq(s, 1, Len(s) - 1))
    ELSE s

\* str.strip()
PyStrip(s) == PyRStrip(PyLStrip(s))

\* str.startswith(c) for a one-character c
PyStartsWith(s, c) == s # <<>> /\ s[1] = c

\* str.replace(c, '') for a one-character c
PyRemove(s, c) == SelectSeq(s, LAMBDA x : x # c)

\* Mutant: the comment test is made on the line with its separators removed.
lr_body_comment_after_replace(roots, raw) ==
    LET line == PyStrip(raw)
        rt == PyRemove(PyRemove(line, DASH), SPACE)
    IN  IF line # <<>> /\ ~ PyStartsWith(rt, HASH) /\ Len(rt) = 3
        THEN Append(roots, rt)
        ELSE roots

\* The body of `for line in f`: the list `roots` after the line raw.
lr_body(roots, raw) ==
    LET line == PyStrip(raw)
    IN  IF line # <<>> /\ ~ PyStartsWith(line, HASH)
        THEN LET rt == PyRemove(PyRemove(line, DASH), SPACE)
             IN  IF Len(rt) = 3 THEN Append(roots, rt) ELSE roots
        ELSE roots

LineAlphabet == {KAF, BEH, SPACE, DASH, HASH, TAB}
SampleLines ==
    {<<KAF, TEH, BEH>>,
     <<KAF, DASH, TEH, DASH, BEH>>,
     <<KAF, SPACE, TEH, SPACE, BEH>>,
     <<QAF, WAW, LAM>>,
     <<SPACE, HASH, KAF, BEH>>,
     <<DASH, HASH, KAF, BEH>>,
     <<>>}

\* The contents of the lines of the files considered: the files of up to
\* MaxFileLines sample lines, and every one-line file over LineAlphabet.
FileContents ==
    StrUpTo(SampleLines, MaxFileLines)
        \cup {<<l>> : l \in StrUpTo(LineAlphabet, MaxLineLen)}

LoadIdle ==
    /\ FilterOff /\ MainOff /\ PatternOff /\ GenOff /\ DigitOff /\ CliOff
    /\ LastOff
load_others ==
    <<filter_vars, main_vars, pattern_vars, gen_vars, digit_vars, cli_vars,
      last_vars>>

\* Iterating the file yields each line with its newline; the last line of
\* the file may lack one.
InitLoad ==
    /\ \E cs \in FileContents, last_nl \in BOOLEAN :
          lr_file = [i \in 1..Len(cs) |->
                        IF i < Len(cs) \/ last_nl THEN cs[i] \o <<NL>>
                        ELSE cs[i]]
    /\ lr_i = 0
    /\ lr_roots = <<>>
    /\ lr_pc = "loop"
    /\ LoadIdle

\* One pass of `for line in f`.
LoadLine ==
    /\ lr_pc = "loop"
    /\ lr_i < Len(lr_file)
    /\ lr_roots' = lr_body(lr_roots, lr_file[lr_i + 1])
    /\ lr_i' = lr_i + 1
    /\ UNCHANGED <<lr_file, lr_pc, load_others>>

\* return roots
LoadReturn ==
    /\ lr_pc = "loop"
    /\ lr_i = Len(lr_file)
    /\ lr_pc' = "returned"
    /\ UNCHANGED <<lr_file, lr_i, lr_roots, load_others>>

NextLoad == LoadLine \/ LoadReturn

SpecLoad == InitLoad /\ [][NextLoad]_vars

(***************************************************************************)
(* The digit suffixes and digit_count of gen_from_roots and                *)
(* gen_arabic_pairs, for a parsed range (min_digits, max_digits).          *)
(***************************************************************************)
MaxDigits == 2

DigitIdle ==
    /\ FilterOff /\ MainOff /\ PatternOff /\ GenOff /\ LoadOff /\ CliOff
    /\ LastOff
digit_others ==
    <<filter_vars, main_vars, pattern_vars, gen_vars, load_vars, cli_vars,
      last_vars>>

InitDigits ==
    /\ ds_prog \in {"roots", "pairs"}
    /\ ds_range \in (0..MaxDigits) \X (0..MaxDigits)
    /\ ds_count = <<>>
    /\ ds_gen = <<"start">>
    /\ ds_out = <<>>
    /\ ds_pc = "count"
    /\ DigitIdle

\* digit_count is computed, before any candidate is generated.
DigitCount ==
    /\ ds_pc = "count"
    /\ ds_count' = <<IF ds_prog = "roots"
                     THEN gr_digit_count(ds_range[1], ds_range[2])
                     ELSE gp_digit_count(ds_range[1], ds_range[2])>>
    /\ ds_pc' = "yield"
    /\ UNCHANGED <<ds_prog, ds_range, ds_gen, ds_out, digit_others>>

\* next() on the generator of the program that runs.
DigitNext ==
    IF ds_prog = "roots"
    THEN gr_generate_digit_suffixes_next(ds_gen, ds_range[1], ds_range[2])
    ELSE gp_generate_digit_suffixes_next(ds_gen, ds_range[1], ds_range[2])

\* The generator yields its next suffix.
DigitYield ==
    /\ ds_pc = "yield"
    /\ DigitNext.yielded # <<>>
    /\ ds_out' = Append(ds_out, DigitNext.yielded[1])
    /\ ds_gen' = DigitNext.frame
    /\ UNCHANGED <<ds_prog, ds_range, ds_count, ds_pc, digit_others>>

\* The generator is exhausted.
DigitStop ==
    /\ ds_pc = "yield"
    /\ DigitNext.yielded = <<>>
    /\ ds_gen' = DigitNext.frame
    /\ ds_pc' = "done"
    /\ UNCHANGED <<ds_prog, ds_range, ds_count, ds_out, digit_others>>

NextDigits == DigitCount \/ DigitYield \/ DigitStop

SpecDigits == InitDigits /\ [][NextDigits]_vars

(***************************************************************************)
(* The command lines of gen_from_roots.py, gen_arabic_pairs.py and         *)
(* gen_arabic_passwords.py: each main() from its arguments to its exit.    *)
(* stdout and stderr are sequences of records, one per line written.       *)
(***************************************************************************)
MaxSpecLen == 3
MaxPrint == 3

\* PATTERNS of gen_from_roots.py: the templates, in catalog order.
gr_PATTERNS ==
    <<
     <<FEH, AIN, LAM>>, <<FEH, AIN, SHADDA, LAM>>, <<FEH, ALEF, AIN, LAM>>,
     <<FEH, AIN, YEH, LAM>>, <<FEH, AIN, WAW, LAM>>, <<FEH, AIN, ALEF, LAM>>,
     <<FEH, AIN, ALEF, LAM, TEH_MARBUTA>>,
     <<FEH, ALEF, AIN, LAM, TEH_MARBUTA>>, <<MEEM, FEH, AIN, LAM>>,
     <<MEEM, FEH, AIN, LAM, TEH_MARBUTA>>, <<MEEM, FEH, AIN, WAW, LAM>>,
     <<ALEF, FEH, AIN, LAM>>, <<FEH, AIN, LAM, ALEF, NOON>>,
     <<FEH, AIN, LAM, TEH_MARBUTA>>, <<MEEM, HAH, MEEM, DAL>>,
     <<ALEF, HAH, MEEM, DAL>>, <<FEH, AIN, LAM, YEH>>,
     <<FEH, AIN, LAM, YEH, TEH_MARBUTA>>, <<TEH, FEH, AIN, YEH, LAM>>,
     <<MEEM, FEH, ALEF, AIN, LAM, TEH_MARBUTA>>,
     <<ALEF, FEH, AIN, ALEF, LAM>>, <<TEH, FEH, AIN, SHADDA, LAM>>,
     <<TEH, FEH, ALEF, AIN, LAM>>, <<ALEF, NOON, FEH, AIN, ALEF, LAM>>,
     <<ALEF, FEH, TEH, AIN, ALEF, LAM>>,
     <<ALEF, SEEN, TEH, FEH, AIN, ALEF, LAM>>, <<FEH, AIN, WAW, LAM>>,
     <<ALEF, FEH, AIN, ALEF, LAM>>, <<FEH, AIN, LAM, ALEF, HAMZA>>,
     <<FEH, WAW, ALEF, AIN, LAM>>, <<MEEM, FEH, ALEF, AIN, YEH, LAM>>
    >>

\* SIMPLE_PATTERNS of gen_from_roots.py.
gr_SIMPLE_PATTERNS ==
    <<
     <<FEH, AIN, LAM>>, <<FEH, AIN, SHADDA, LAM>>, <<FEH, ALEF, AIN, LAM>>,
     <<FEH, AIN, YEH, LAM>>, <<FEH, AIN, WAW, LAM>>, <<FEH, AIN, ALEF, LAM>>,
     <<FEH, AIN, ALEF, LAM, TEH_MARBUTA>>, <<MEEM, FEH, AIN, LAM>>,
     <<MEEM, FEH, AIN, WAW, LAM>>, <<ALEF, FEH, AIN, LAM>>,
     <<FEH, AIN, LAM, YEH>>, <<TEH, FEH, AIN, YEH, LAM>>
    >>

\* COMMON_ROOTS of gen_arabic_passwords.py.
pw_COMMON_ROOTS ==
    <<
     <<HAH, MEEM, DAL>>, <<AIN, LAM, MEEM>>, <<SEEN, LAM, MEEM>>,
     <<AIN, BEH, DAL>>, <<HAH, SEEN, NOON>>, <<KAF, REH, MEEM>>,
     <<JEEM, MEEM, LAM>>, <<NOON, WAW, REH>>, <<SAD, LAM, HAH>>,
     <<FEH, TEH, HAH>>, <<KHAH, LAM, DAL>>, <<REH, HAH, MEEM>>,
     <<AIN, ZAIN, ZAIN>>, <<SAD, DAL, QAF>>, <<NOON, SAD, REH>>,
     <<FEH, REH, HAH>>, <<SEEN, AIN, DAL>>, <<MEEM, JEEM, DAL>>,
     <<HEH, DAL, YEH>>, <<FEH, DAD, LAM>>, <<JEEM, LAM, LAM>>,
     <<AIN, DAL, LAM>>, <<QAF, DAL, REH>>, <<ALEF, MEEM, NOON>>,
     <<WAW, JEEM, DAL>>, <<KAF, TEH, BEH>>, <<QAF, WAW, LAM>>,
     <<AIN, MEEM, LAM>>, <<DAL, REH, SEEN>>, <<FEH, HEH, MEEM>>,
     <<SEEN, MEEM, AIN>>, <<NOON, ZAH, REH>>, <<JEEM, LAM, SEEN>>,
     <<ALEF, KAF, LAM>>, <<SHEEN, REH, BEH>>, <<NOON, WAW, MEEM>>,
     <<QAF, WAW, MEEM>>, <<MEEM, SHEEN, YEH>>, <<REH, KAF, BEH>>,
     <<SEEN, KAF, NOON>>, <<KHAH, REH, JEEM>>, <<DAL, KHAH, LAM>>,
     <<HAH, MEEM, LAM>>, <<NOON, QAF, LAM>>, <<TAH, LAM, BEH>>,
     <<BEH, HAH, THEH>>, <<AIN, REH, FEH>>, <<JEEM, MEEM, AIN>>,
     <<SAD, NOON, AIN>>, <<BEH, NOON, YEH>>, <<MEEM, LAM, KAF>>,
     <<SEEN, FEH, REH>>, <<KHAH, DAL, MEEM>>, <<LAM, BEH, SEEN>>,
     <<GHAIN, SEEN, LAM>>, <<TAH, BEH, KHAH>>, <<KAF, SEEN, REH>>,
     <<FEH, TEH, HAH>>, <<GHAIN, LAM, QAF>>, <<REH, BEH, HAH>>,
     <<SAD, LAM, WAW>>, <<ZAIN, KAF, WAW>>, <<SAD, WAW, MEEM>>,
     <<HAH, JEEM, JEEM>>, <<TEH, WAW, BEH>>, <<GHAIN, FEH, REH>>,
     <<SHEEN, KAF, REH>>, <<SAD, BEH, REH>>, <<HAH, LAM, MEEM>>,
     <<KHAH, LAM, QAF>>, <<WAW, LAM, DAL>>, <<ZAIN, WAW, JEEM>>,
     <<ALEF, KHAH, WAW>>, <<ALEF, BEH, WAW>>, <<ALEF, MEEM, MEEM>>,
     <<BEH, NOON, TEH>>, <<AIN, MEEM, MEEM>>, <<KHAH, ALEF, LAM>>
    >>

\* PATTERNS of gen_arabic_passwords.py.
pw_PATTERNS ==
    <<
     <<FEH, AIN, LAM>>, <<FEH, ALEF, AIN, LAM>>, <<FEH, AIN, YEH, LAM>>,
     <<FEH, AIN, WAW, LAM>>, <<FEH, AIN, ALEF, LAM>>,
     <<MEEM, FEH, AIN, LAM>>, <<MEEM, FEH, AIN, WAW, LAM>>,
     <<ALEF, FEH, AIN, LAM>>, <<FEH, AIN, LAM, YEH>>,
     <<FEH, AIN, LAM, ALEF, NOON>>, <<FEH, AIN, ALEF, LAM, TEH_MARBUTA>>,
     <<TEH, FEH, AIN, YEH, LAM>>
    >>

\* SIMPLE_PREFIXES of gen_arabic_passwords.py: (prefix, separator) tuples.
pw_SIMPLE_PREFIXES ==
    <<
     << <<>>, <<>> >>, << <<ALEF, LAM>>, <<>> >>,
     << <<ALEF, BEH, WAW>>, <<SPACE>> >>, << <<ALEF, BEH, WAW>>, <<>> >>,
     << <<AIN, BEH, DAL>>, <<>> >>, << <<AIN, BEH, DAL>>, <<SPACE>> >>
    >>

\* FIRST_CHARS of gen_arabic_pairs.py.
gp_FIRST_CHARS ==
    <<
     ALEF, BEH, TEH, THEH, JEEM, HAH, KHAH, DAL, THAL, REH, ZAIN, SEEN,
     SHEEN, SAD, DAD, TAH, ZAH, AIN, GHAIN, FEH, QAF, KAF, LAM, MEEM, NOON,
     HEH, WAW, YEH, ALEF_HAMZA_ABOVE, ALEF_HAMZA_BELOW, ALEF_MADDA
    >>

\* str.isdigit() of one character, and its value, for the ASCII digits.
PyIsDecimal(c) == \E d \in 1..Len(DIGITS) : DIGITS[d] = c
PyDigitValue(c) == (CHOOSE d \in 1..Len(DIGITS) : DIGITS[d] = c) - 1

\* Whether int(s) returns, for s over the characters of SpecAlphabet: a
\* non-empty string of digits. Otherwise int(s) raises ValueError.
PyIntOk(s) == s # <<>> /\ \A i \in 1..Len(s) : PyIsDecimal(s[i])

\* int(s)
RECURSIVE PyInt(_)
PyInt(s) ==
    IF s = <<>> THEN 0
    ELSE PyInt(SubSeq(s, 1, Len(s) - 1)) * 10 + PyDigitValue(s[Len(s)])

\* str(n) for n >= 0
RECURSIVE PyStr(_)
PyStr(n) ==
    IF n < 10 THEN <<DIGITS[n + 1]>>
    ELSE PyStr(n \div 10) \o <<DIGITS[(n % 10) + 1]>>

\* s.split(c) for a one-character c
RECURSIVE PySplit(_, _)
PySplit(s, c) ==
    LET ks == {k \in 1..Len(s) : s[k] = c}
    IN  IF ks = {} THEN <<s>>
        ELSE LET k == CHOOSE k \in ks : \A j \in ks : k <= j
             IN  <<SubSeq(s, 1, k - 1)>> \o PySplit(SubSeq(s, k + 1, Len(s)), c)

\* parse_digit_range: the tuple returned, or ok = FALSE for a ValueError
\* raised by int().
ParseDigitRange(digit_spec) ==
    IF \E k \in 1..Len(digit_spec) : digit_spec[k] = DASH
    THEN LET parts == PySplit(digit_spec, DASH)
         IN  IF PyIntOk(parts[1]) /\ PyIntOk(parts[2])
             THEN [ok |-> TRUE, val |-> <<PyInt(parts[1]), PyInt(parts[2])>>]
             ELSE [ok |-> FALSE]
    ELSE IF PyIntOk(digit_spec)
         THEN [ok |-> TRUE, val |-> <<PyInt(digit_spec), PyInt(digit_spec)>>]
         ELSE [ok |-> FALSE]

gr_parse_digit_range(digit_spec) == ParseDigitRange(digit_spec)
gp_parse_digit_range(digit_spec) == ParseDigitRange(digit_spec)

\* load_roots on the lines of an existing file.
RECURSIVE gr_load_roots_loop(_, _, _)
gr_load_roots_loop(lines, i, roots) ==
    IF i < Len(lines)
    THEN gr_load_roots_loop(lines, i + 1, lr_body(roots, lines[i + 1]))
    ELSE roots

gr_load_roots(lines) == gr_load_roots_loop(lines, 0, <<>>)

\* Mutant: a missing roots file is taken for an empty one.
gr_main_load_roots_ignores_missing(file, stderr) ==
    IF file = <<>>
    THEN [roots |-> <<>>, stderr |-> stderr, exit |-> <<>>]
    ELSE [roots |-> gr_load_roots(file[1]), stderr |-> stderr, exit |-> <<>>]

\* The try/except around load_roots in gen_from_roots.main. file is <<>> when
\* no such file exists and <<lines>> otherwise.
gr_main_load_roots(file, stderr) ==
    IF file = <<>>
    THEN [roots |-> <<>>,
          stderr |-> Append(stderr, [kind |-> "roots_not_found"]),
          exit |-> <<1>>]
    ELSE [roots |-> gr_load_roots(file[1]), stderr |-> stderr, exit |-> <<>>]

\* What --patterns prints: a header, then one line per catalog entry with the
\* result for the root k-t-b.
gr_patterns_listing ==
    <<[kind |-> "header"]>> \o
    [i \in 1..Len(gr_PATTERNS) |->
        [kind |-> "listing", pattern |-> gr_PATTERNS[i],
         example |-> gen_from_roots_apply_pattern(<<KAF, TEH, BEH>>,
                                                  gr_PATTERNS[i])]]

\* generate_words(length) for length < 2, the lengths of CliLengths.
gp_generate_words(length) ==
    CASE length < 2 -> [i \in 1..Len(gp_FIRST_CHARS) |-> <<gp_FIRST_CHARS[i]>>]

\* word_estimate of estimate_candidates, for the lengths of CliLengths.
gp_word_estimate(length) == CASE length = 1 -> 32

gp_estimate_candidates(len1, len2, min_digits, max_digits) ==
    gp_word_estimate(len1) * gp_word_estimate(len2)
        * gp_digit_count(min_digits, max_digits)

\* YEARS of gen_arabic_passwords.py
pw_YEARS ==
    [i \in 1..(2026 - 1990) |-> PyStr(1990 + i - 1)]
        \o << <<"1", "2", "3">>, <<"1", "2", "3", "4">>,
              <<"1", "2", "3", "4", "5">> >>

\* `for pattern in patterns` of generate_root_words, for one root: `seen`
\* and the words yielded so far.
RECURSIVE pw_generate_root_words_inner(_, _, _, _)
pw_generate_root_words_inner(rt, patterns, j, acc) ==
    IF j < Len(patterns)
    THEN pw_generate_root_words_inner(
             rt, patterns, j + 1,
             pw_generate_root_words_body(rt, patterns[j + 1], acc.seen,
                                         acc.out))
    ELSE acc

\* list(generate_year_suffixes(with_at))
pw_generate_year_suffixes(with_at) ==
    << <<>> >> \o
    (IF with_at
     THEN [i \in 1..(2 * Len(pw_YEARS)) |->
              IF i % 2 = 1 THEN pw_YEARS[(i + 1) \div 2]
              ELSE <<AT>> \o pw_YEARS[i \div 2]]
     ELSE pw_YEARS)

\* The suffixes of `for suffix in generate_year_suffixes(with_at if with_year
\* else False)` that pass `if not with_year and suffix: continue`.
pw_suffixes(with_year, with_at) ==
    SelectSeq(pw_generate_year_suffixes(IF with_year THEN with_at ELSE FALSE),
              LAMBDA suffix : ~ (~ with_year /\ suffix # <<>>))

\* list(generate_prefixed_words(words))[i], 0-based
pw_prefixed_word_at(words, i) ==
    LET p == pw_SIMPLE_PREFIXES[(i % Len(pw_SIMPLE_PREFIXES)) + 1]
    IN  p[1] \o p[2] \o words[(i \div Len(pw_SIMPLE_PREFIXES)) + 1]

\* The list `words` of generate_single_words, `first_words` of
\* generate_word_pairs: its length and its i-th entry, 0-based.
pw_first_words_len(words, with_prefix) ==
    IF with_prefix THEN Len(words) * Len(pw_SIMPLE_PREFIXES) ELSE Len(words)

pw_first_word_at(words, with_prefix, i) ==
    IF with_prefix THEN pw_prefixed_word_at(words, i) ELSE words[i + 1]

\* generate_single_words: how many strings it yields, and the k-th, 0-based.
pw_single_len(words, with_prefix, with_year, with_at) ==
    pw_first_words_len(words, with_prefix)
        * Len(pw_suffixes(with_year, with_at))

pw_single_at(words, with_prefix, with_year, with_at, k) ==
    LET n == Len(pw_suffixes(with_year, with_at))
    IN  pw_first_word_at(words, with_prefix, k \div n)
            \o pw_suffixes(with_year, with_at)[(k % n) + 1]

\* second_words = words + [AL + w for w in words] (AL is alef-lam), 0-based
pw_second_word_at(words, j) ==
    IF j < Len(words) THEN words[j + 1]
    ELSE <<ALEF, LAM>> \o words[j - Len(words) + 1]

\* generate_word_pairs: how many strings it yields, and the k-th, 0-based.
pw_pairs_len(words, with_prefix, with_year, with_at) ==
    pw_first_words_len(words, with_prefix) * (2 * Len(words))
        * Len(pw_suffixes(with_year, with_at))

pw_pairs_at(words, with_prefix, with_year, with_at, space, k) ==
    LET n == Len(pw_suffixes(with_year, with_at))
        q == k \div n
    IN  pw_first_word_at(words, with_prefix, q \div (2 * Len(words)))
            \o (IF space THEN <<SPACE>> ELSE <<>>)
            \o pw_second_word_at(words, q % (2 * Len(words)))
            \o pw_suffixes(with_year, with_at)[(k % n) + 1]

\* generate_full before its `seen` test: the three generators in a row.
pw_full_len(words, with_at) ==
    pw_single_len(words, TRUE, TRUE, with_at)
        + 2 * pw_pairs_len(words, TRUE, TRUE, with_at)

pw_full_at(words, with_at, k) ==
    LET s == pw_single_len(words, TRUE, TRUE, with_at)
        p == pw_pairs_len(words, TRUE, TRUE, with_at)
    IN  IF k < s THEN pw_single_at(words, TRUE, TRUE, with_at, k)
        ELSE IF k < s + p
        THEN pw_pairs_at(words, TRUE, TRUE, with_at, TRUE, k - s)
        ELSE pw_pairs_at(words, TRUE, TRUE, with_at, FALSE, k - s - p)

\* The generator that gen_arabic_passwords.main iterates for args.mode.
pw_main_len(args, words) ==
    CASE args.mode = "single" ->
             pw_single_len(words, ~ args.no_prefix, args.year, args.at)
      [] args.mode = "pairs" ->
             pw_pairs_len(words, ~ args.no_prefix, args.year, args.at)
      [] args.mode = "full" -> pw_full_len(words, args.at)

pw_main_at(args, words, k) ==
    CASE args.mode = "single" ->
             pw_single_at(words, ~ args.no_prefix, args.year, args.at, k)
      [] args.mode = "pairs" ->
             pw_pairs_at(words, ~ args.no_prefix, args.year, args.at,
                         ~ args.no_space, k)
      [] args.mode = "full" -> pw_full_at(words, args.at, k)

\* estimate(mode, with_year, with_at) of gen_arabic_passwords.py
pw_estimate(mode, with_year, with_at) ==
    LET base_words == Len(pw_COMMON_ROOTS) * Len(pw_PATTERNS)
        prefixed_words == base_words * Len(pw_SIMPLE_PREFIXES)
        year_mult == IF with_year
                     THEN (IF with_at THEN 1 + Len(pw_YEARS) * 2
                           ELSE 1 + Len(pw_YEARS))
                     ELSE 1
    IN  CASE mode = "single" -> prefixed_words * year_mult
          [] mode = "pairs" -> prefixed_words * (base_words * 2) * year_mult
          [] mode = "full" ->
                 prefixed_words * year_mult
                     + 2 * (prefixed_words * (base_words * 2) * year_mult)

\* The --digits values considered: the strings of up to MaxSpecLen characters
\* in which no number has two digits, and one string of three parts.
SpecAlphabet == {"0", "1", "2", DASH, LETTER_X}
CliDigitSpecs ==
    {s \in StrUpTo(SpecAlphabet, MaxSpecLen) :
        \A i \in 1..(Len(s) - 1) : ~ (PyIsDecimal(s[i]) /\ PyIsDecimal(s[i + 1]))}
    \cup {<<"0", DASH, "1", DASH, "2">>}

\* The --roots files considered: none (<<>>), or <<lines>>.
CliRootFiles ==
    {<<>>,
     << <<>> >>,
     << << <<KAF, TEH, BEH, NL>> >> >>,
     << << <<HASH, SPACE, KAF, NL>>, <<KAF, DASH, TEH, DASH, BEH, NL>>,
           <<QAF, WAW, LAM>> >> >>,
     << << <<WAW, WAW, LAM, NL>>, <<KAF, TEH, BEH, NL>> >> >>}

CliLengths == {1}

CliArgs(prog) ==
    CASE prog = "roots" ->
             [digits : CliDigitSpecs, estimate : BOOLEAN, full : BOOLEAN,
              patterns : BOOLEAN, roots_file : CliRootFiles]
      [] prog = "pairs" ->
             [len1 : CliLengths, len2 : CliLengths, digits : CliDigitSpecs,
              estimate : BOOLEAN, separator : {<<SPACE>>}]
      [] prog = "passwords" ->
             [mode : {"single", "pairs", "full"}, year : BOOLEAN,
              at : BOOLEAN, no_space : BOOLEAN, no_prefix : BOOLEAN,
              estimate : BOOLEAN]

CliIdle ==
    /\ FilterOff /\ MainOff /\ PatternOff /\ GenOff /\ LoadOff /\ DigitOff
    /\ LastOff
cli_others ==
    <<filter_vars, main_vars, pattern_vars, gen_vars, load_vars, digit_vars,
      last_vars>>

InitCli ==
    /\ cli_prog \in {"roots", "pairs", "passwords"}
    /\ cli_args \in CliArgs(cli_prog)
    /\ cli_pc = "start"
    /\ cli_range = <<>>
    /\ cli_list = <<>>
    /\ cli_k = 0
    /\ cli_seen = {}
    /\ cli_skipped = 0
    /\ cli_word = <<>>
    /\ cli_frame = <<"off">>
    /\ cli_stdout = <<>>
    /\ cli_stderr = <<>>
    /\ cli_exit = <<>>
    /\ CliIdle

\* The catalog gen_from_roots.main works with.
CliPatterns == IF cli_args.full THEN gr_PATTERNS ELSE gr_SIMPLE_PATTERNS

\* gen_from_roots.main with --patterns: the listing, then return.
CliListPatterns ==
    /\ cli_prog = "roots"
    /\ cli_pc = "start"
    /\ cli_args.patterns
    /\ cli_stdout' = cli_stdout \o gr_patterns_listing
    /\ cli_exit' = <<0>>
    /\ cli_pc' = "exit"
    /\ UNCHANGED <<cli_prog, cli_args, cli_range, cli_list, cli_k, cli_seen,
                   cli_skipped, cli_word, cli_frame, cli_stderr, cli_others>>

\* min_digits, max_digits = parse_digit_range(args.digits); a ValueError is
\* not caught: the traceback goes to stderr and the status is 1.
CliParseDigits ==
    /\ cli_prog \in {"roots", "pairs"}
    /\ cli_pc = "start"
    /\ cli_prog = "roots" => ~ cli_args.patterns
    /\ LET r == IF cli_prog = "roots"
                THEN gr_parse_digit_range(cli_args.digits)
                ELSE gp_parse_digit_range(cli_args.digits)
       IN  IF r.ok
           THEN /\ cli_range' = r.val
                /\ cli_pc' = IF cli_prog = "roots" THEN "load" ELSE "estimate"
                /\ UNCHANGED <<cli_stderr, cli_exit>>
           ELSE /\ cli_stderr' = Append(cli_stderr,
                                        [kind |-> "traceback",
                                         exc |-> "ValueError"])
                /\ cli_exit' = <<1>>
                /\ cli_pc' = "exit"
                /\ UNCHANGED cli_range
    /\ UNCHANGED <<cli_prog, cli_args, cli_list, cli_k, cli_seen, cli_skipped,
                   cli_word, cli_frame, cli_stdout, cli_others>>

\* gen_from_roots.main: roots = load_roots(args.roots), or the error message
\* and sys.exit(1).
CliLoadRoots ==
    /\ cli_pc = "load"
    /\ LET r == gr_main_load_roots(cli_args.roots_file, cli_stderr)
       IN  /\ cli_list' = r.roots
           /\ cli_stderr' = r.stderr
           /\ cli_exit' = r.exit
           /\ cli_pc' = IF r.exit = <<>> THEN "estimate" ELSE "exit"
    /\ UNCHANGED <<cli_prog, cli_args, cli_range, cli_k, cli_seen,
                   cli_skipped, cli_word, cli_frame, cli_stdout, cli_others>>

\* The lines `if args.estimate:` prints before it returns.
CliEstimateReport ==
    CASE cli_prog = "roots" ->
             LET digit_count == gr_digit_count(cli_range[1], cli_range[2])
             IN  <<[kind |-> "roots", n |-> Len(cli_list)],
                   [kind |-> "patterns", n |-> Len(CliPatterns)],
                   [kind |-> "digit_combinations", n |-> digit_count],
                   [kind |-> "estimated_candidates",
                    n |-> Len(cli_list) * Len(CliPatterns) * digit_count]>>
      [] cli_prog = "pairs" ->
             <<[kind |-> "estimated_candidates",
                n |-> gp_estimate_candidates(cli_args.len1, cli_args.len2,
                                             cli_range[1], cli_range[2])]>>
      [] cli_prog = "passwords" ->
             <<[kind |-> "mode", v |-> cli_args.mode],
               [kind |-> "year_suffix", v |-> cli_args.year],
               [kind |-> "at_separator", v |-> cli_args.at],
               [kind |-> "estimated_candidates",
                n |-> pw_estimate(cli_args.mode, cli_args.year, cli_args.at)]>>

\* The line printed to stderr before generation starts.
CliGeneratingReport ==
    CASE cli_prog = "roots" ->
             <<[kind |-> "generating", roots |-> Len(cli_list),
                patterns |-> Len(CliPatterns)]>>
      [] cli_prog = "pairs" ->
             <<[kind |-> "generating",
                n |-> gp_estimate_candidates(cli_args.len1, cli_args.len2,
                                             cli_range[1], cli_range[2])]>>
      [] cli_prog = "passwords" -> <<>>

\* Mutant: the estimate branch is never taken.
main_returns_after_estimate_never(args) == FALSE

\* `if args.estimate: ...; return`
main_returns_after_estimate(args) == args.estimate

\* The estimate branch of the three main(): the report and return, or the
\* start of generation.
CliEstimate ==
    /\ \/ cli_pc = "estimate"
       \/ cli_pc = "start" /\ cli_prog = "passwords"
    /\ IF main_returns_after_estimate(cli_args)
       THEN /\ cli_stderr' = cli_stderr \o CliEstimateReport
            /\ cli_exit' = <<0>>
            /\ cli_pc' = "exit"
       ELSE /\ cli_stderr' = cli_stderr \o CliGeneratingReport
            /\ cli_pc' = IF cli_prog = "passwords" THEN "words" ELSE "loop"
            /\ UNCHANGED cli_exit
    /\ UNCHANGED <<cli_prog, cli_args, cli_range, cli_list, cli_k, cli_seen,
                   cli_skipped, cli_word, cli_frame, cli_stdout, cli_others>>

\* gen_arabic_passwords: words = list(generate_root_words()), the first
\* statement of the generator main iterates. One pass of `for root in roots`
\* with the whole of its inner loop; cli_seen is the `seen` of
\* generate_root_words here.
CliPwWordsRoot ==
    /\ cli_pc = "words"
    /\ cli_k < Len(pw_COMMON_ROOTS)
    /\ LET acc == pw_generate_root_words_inner(
                      pw_COMMON_ROOTS[cli_k + 1], pw_PATTERNS, 0,
                      [seen |-> cli_seen, out |-> cli_list])
       IN  cli_seen' = acc.seen /\ cli_list' = acc.out
    /\ cli_k' = cli_k + 1
    /\ UNCHANGED <<cli_prog, cli_args, cli_pc, cli_range, cli_skipped,
                   cli_word, cli_frame, cli_stdout, cli_stderr, cli_exit,
                   cli_others>>

\* generate_root_words is exhausted: `words` is complete, and the loop over
\* the candidates starts, with the empty `seen` of generate_full.
CliPwWordsDone ==
    /\ cli_pc = "words"
    /\ cli_k = Len(pw_COMMON_ROOTS)
    /\ cli_k' = 0
    /\ cli_seen' = {}
    /\ cli_pc' = "loop"
    /\ UNCHANGED <<cli_prog, cli_args, cli_range, cli_list, cli_skipped,
                   cli_word, cli_frame, cli_stdout, cli_stderr, cli_exit,
                   cli_others>>

\* The number of candidate lines on stdout.
CliCount == Len(cli_stdout)

\* gen_from_roots.main: one pass of `for pattern, _ in patterns` up to the
\* suffix loop.
CliRootsPair ==
    /\ cli_prog = "roots"
    /\ cli_pc = "loop"
    /\ cli_word = <<>>
    /\ cli_k < Len(cli_list) * Len(CliPatterns)
    /\ LET word == gen_from_roots_apply_pattern(
                       cli_list[(cli_k \div Len(CliPatterns)) + 1],
                       CliPatterns[(cli_k % Len(CliPatterns)) + 1])
       IN  IF Truthy(word) /\ word.val \notin cli_seen
           THEN /\ cli_seen' = cli_seen \cup {word.val}
                /\ IF gr_has_bad_doubles(word.val)
                   THEN /\ cli_skipped' = cli_skipped + 1
                        /\ cli_k' = cli_k + 1
                        /\ UNCHANGED <<cli_word, cli_frame>>
                   ELSE /\ cli_word' = <<word.val>>
                        /\ cli_frame' = <<"start">>
                        /\ UNCHANGED <<cli_skipped, cli_k>>
           ELSE /\ cli_k' = cli_k + 1
                /\ UNCHANGED <<cli_seen, cli_skipped, cli_word, cli_frame>>
    /\ UNCHANGED <<cli_prog, cli_args, cli_pc, cli_range, cli_list,
                   cli_stdout, cli_stderr, cli_exit, cli_others>>

\* gen_arabic_pairs.main: one pass of `for word2 in generate_words(len2)` up
\* to the suffix loop.
CliPairsPair ==
    /\ cli_prog = "pairs"
    /\ cli_pc = "loop"
    /\ cli_word = <<>>
    /\ LET words1 == gp_generate_words(cli_args.len1)
           words2 == gp_generate_words(cli_args.len2)
       IN  /\ cli_k < Len(words1) * Len(words2)
           /\ cli_word' = <<words1[(cli_k \div Len(words2)) + 1]
                                \o cli_args.separator
                                \o words2[(cli_k % Len(words2)) + 1]>>
    /\ cli_frame' = <<"start">>
    /\ UNCHANGED <<cli_prog, cli_args, cli_pc, cli_range, cli_list, cli_k,
                   cli_seen, cli_skipped, cli_stdout, cli_stderr, cli_exit,
                   cli_others>>

\* One pass of `for suffix in generate_digit_suffixes(...)`: the line is
\* printed, or the generator is exhausted and the enclosing loop goes on.
\* Printing is followed up to MaxPrint lines.
CliPrintSuffix ==
    /\ cli_prog \in {"roots", "pairs"}
    /\ cli_pc = "loop"
    /\ cli_word # <<>>
    /\ LET n == IF cli_prog = "roots"
                THEN gr_generate_digit_suffixes_next(cli_frame, cli_range[1],
                                                     cli_range[2])
                ELSE gp_generate_digit_suffixes_next(cli_frame, cli_range[1],
                                                     cli_range[2])
       IN  IF n.yielded # <<>>
           THEN /\ CliCount < MaxPrint
                /\ cli_stdout' = Append(cli_stdout,
                                        [kind |-> "candidate",
                                         text |-> cli_word[1] \o n.yielded[1]])
                /\ cli_frame' = n.frame
                /\ UNCHANGED <<cli_word, cli_k>>
           ELSE /\ cli_word' = <<>>
                /\ cli_frame' = <<"off">>
                /\ cli_k' = cli_k + 1
                /\ UNCHANGED cli_stdout
    /\ UNCHANGED <<cli_prog, cli_args, cli_pc, cli_range, cli_list, cli_seen,
                   cli_skipped, cli_stderr, cli_exit, cli_others>>

\* gen_arabic_passwords.main: one string of the generator for args.mode;
\* generate_full passes it on only when it is new. Printing is followed up to
\* MaxPrint lines.
CliPwPrint ==
    /\ cli_prog = "passwords"
    /\ cli_pc = "loop"
    /\ cli_k < pw_main_len(cli_args, cli_list)
    /\ LET word == pw_main_at(cli_args, cli_list, cli_k)
       IN  IF cli_args.mode = "full" /\ word \in cli_seen
           THEN UNCHANGED <<cli_seen, cli_stdout>>
           ELSE /\ CliCount < MaxPrint
                /\ cli_seen' = IF cli_args.mode = "full"
                               THEN cli_seen \cup {word} ELSE cli_seen
                /\ cli_stdout' = Append(cli_stdout,
                                        [kind |-> "candidate", text |-> word])
    /\ cli_k' = cli_k + 1
    /\ UNCHANGED <<cli_prog, cli_args, cli_pc, cli_range, cli_list,
                   cli_skipped, cli_word, cli_frame, cli_stderr, cli_exit,
                   cli_others>>

\* The number of passes of the loops main runs.
CliPasses ==
    CASE cli_prog = "roots" -> Len(cli_list) * Len(CliPatterns)
      [] cli_prog = "pairs" ->
             Len(gp_generate_words(cli_args.len1))
                 * Len(gp_generate_words(cli_args.len2))
      [] cli_prog = "passwords" -> pw_main_len(cli_args, cli_list)

\* The loops are exhausted: the closing lines on stderr, and main returns.
CliEnd ==
    /\ cli_pc = "loop"
    /\ cli_word = <<>>
    /\ cli_k = CliPasses
    /\ cli_stderr' =
           cli_stderr
               \o (IF cli_prog = "roots" /\ cli_skipped # 0
                   THEN <<[kind |-> "skipped", n |-> cli_skipped]>>
                   ELSE <<>>)
               \o <<[kind |-> "generated", n |-> CliCount]>>
    /\ cli_exit' = <<0>>
    /\ cli_pc' = "exit"
    /\ UNCHANGED <<cli_prog, cli_args, cli_range, cli_list, cli_k, cli_seen,
                   cli_skipped, cli_word, cli_frame, cli_stdout, cli_others>>

NextCli ==
    \/ CliListPatterns
    \/ CliParseDigits
    \/ CliLoadRoots
    \/ CliEstimate
    \/ CliPwWordsRoot
    \/ CliPwWordsDone
    \/ CliRootsPair
    \/ CliPairsPair
    \/ CliPrintSuffix
    \/ CliPwPrint
    \/ CliEnd

SpecCli == InitCli /\ [][NextCli]_vars

(***************************************************************************)
(* gen_arabic_pairs.generate_words, run as a generator of its own.         *)
(***************************************************************************)
MaxWordLen == 3

\* Mutant: teh marbuta is allowed in the middle positions.
gp_MIDDLE_CHARS_with_teh_marbuta ==
    gp_FIRST_CHARS \o <<WAW_HAMZA, YEH_HAMZA, TEH_MARBUTA>>

\* MIDDLE_CHARS of gen_arabic_pairs.py: FIRST_CHARS' letters, then the two
\* seated hamzas.
gp_MIDDLE_CHARS == gp_FIRST_CHARS \o <<WAW_HAMZA, YEH_HAMZA>>

\* LAST_CHARS of gen_arabic_pairs.py.
gp_LAST_CHARS ==
    <<HAMZA>> \o gp_FIRST_CHARS
        \o <<WAW_HAMZA, YEH_HAMZA, TEH_MARBUTA, ALEF_MAKSURA>>

\* A pass of generate_words is the whole loop over FIRST_CHARS when
\* length < 2, one `first` when length = 2, and one (first, middles) with its
\* loop over LAST_CHARS when length >= 3. The number of passes:
gp_generate_words_passes(length) ==
    IF length < 2 THEN 1
    ELSE IF length = 2 THEN Len(gp_FIRST_CHARS)
    ELSE Len(gp_FIRST_CHARS) * PyPow(Len(gp_MIDDLE_CHARS), length - 2)

\* first + ''.join(middles) of pass k (0-based); product() advances its
\* rightmost position fastest.
gp_generate_words_prefix(length, k) ==
    IF length = 2 THEN <<gp_FIRST_CHARS[k + 1]>>
    ELSE <<gp_FIRST_CHARS[
               (k \div PyPow(Len(gp_MIDDLE_CHARS), length - 2)) + 1]>>
             \o ProductAt(gp_MIDDLE_CHARS, length - 2,
                          k % PyPow(Len(gp_MIDDLE_CHARS), length - 2))

\* The words that pass k yields, in order.
gp_generate_words_pass(length, k) ==
    IF length < 2 THEN gp_generate_words(length)
    ELSE SelectSeq([i \in 1..Len(gp_LAST_CHARS) |->
                       gp_generate_words_prefix(length, k)
                           \o <<gp_LAST_CHARS[i]>>],
                   gen_arabic_pairs_is_likely_arabic_word)

\* The strings looked for among the yields: some chosen ones and, for every
\* length, the string of that many beh.
WordTargetSet ==
    {<<HAMZA>>, <<TEH_MARBUTA, BEH>>, <<BEH, ALEF>>, <<HAMZA, BEH, BEH>>}
WordTargets(length) ==
    {w \in WordTargetSet : Len(w) = length} \cup {[i \in 1..length |-> BEH]}

WordsIdle ==
    /\ FilterOff /\ MainOff /\ PatternOff /\ GenOff /\ LoadOff /\ DigitOff
    /\ CliOff /\ TargetedOff
words_others ==
    <<filter_vars, main_vars, pattern_vars, gen_vars, load_vars, digit_vars,
      cli_vars, targeted_vars>>

InitWords ==
    /\ gw_length \in 0..MaxWordLen
    /\ gw_target \in WordTargets(gw_length)
    /\ gw_k = 0
    /\ gw_batch = <<>>
    /\ gw_hit = FALSE
    /\ gw_pc = "loop"
    /\ WordsIdle

\* One pass of generate_words.
WordsPass ==
    /\ gw_pc = "loop"
    /\ gw_k < gp_generate_words_passes(gw_length)
    /\ gw_batch' = gp_generate_words_pass(gw_length, gw_k)
    /\ gw_hit' = (gw_hit \/ \E i \in 1..Len(gw_batch') : gw_batch'[i] = gw_target)
    /\ gw_k' = gw_k + 1
    /\ UNCHANGED <<gw_length, gw_target, gw_pc, words_others>>

\* The loops are exhausted: the generator returns.
WordsReturn ==
    /\ gw_pc = "loop"
    /\ gw_k = gp_generate_words_passes(gw_length)
    /\ gw_pc' = "done"
    /\ UNCHANGED <<gw_length, gw_target, gw_k, gw_batch, gw_hit, words_others>>

NextWords == WordsPass \/ WordsReturn

SpecWords == InitWords /\ [][NextWords]_vars

(***************************************************************************)
(* gen_targeted.py and gen_targeted_arabic.py: shared Python primitives.   *)
(* Latin letters, digits and punctuation are the one-character strings     *)
(* themselves.                                                             *)
(***************************************************************************)
\* Loops over digit ranges and year lists run their first MaxRun and their
\* last MaxRun passes.
MaxRun == 1

\* The concatenation of a list of lists.
RECURSIVE Flatten(_)
Flatten(ss) == IF ss = <<>> THEN <<>> ELSE Head(ss) \o Flatten(Tail(ss))

\* What a generator yields over `for x in xs:` when the loop body yields
\* Body(x).
ForEach(xs, Body(_)) == Flatten([i \in 1..Len(xs) |-> Body(xs[i])])

\* The items of xs that the loops of the model visit.
Cut(xs) ==
    IF Len(xs) <= 2 * MaxRun THEN xs
    ELSE SubSeq(xs, 1, MaxRun) \o SubSeq(xs, Len(xs) - MaxRun + 1, Len(xs))

\* range(start, stop, step) for step > 0: its length and its i-th item.
PyRangeLen(start, stop, step) ==
    IF stop <= start THEN 0 ELSE (stop - start + step - 1) \div step
PyRangeAt(start, step, i) == start + (i - 1) * step

\* The items of range(start, stop, step) that the loops of the model visit.
CutRange(start, stop, step) ==
    IF PyRangeLen(start, stop, step) <= 2 * MaxRun
    THEN [i \in 1..PyRangeLen(start, stop, step) |-> PyRangeAt(start, step, i)]
    ELSE [i \in 1..(2 * MaxRun) |->
             IF i <= MaxRun THEN PyRangeAt(start, step, i)
             ELSE PyRangeAt(start, step,
                            PyRangeLen(start, stop, step) - 2 * MaxRun + i)]

\* f"{d:0Nd}" for d >= 0: zero-padded on the left to width N, never cut.
PyFormatZeroPad(d, width) ==
    [i \in 1..PyMax(0, width - Len(PyStr(d))) |-> "0"] \o PyStr(d)

LOWERCASE ==
    <<"a", "b", "c", "d", "e", "f", "g", "h", "i", "j", "k", "l", "m",
      "n", "o", "p", "q", "r", "s", "t", "u", "v", "w", "x", "y", "z">>
UPPERCASE ==
    <<"A", "B", "C", "D", "E", "F", "G", "H", "I", "J", "K", "L", "M",
      "N", "O", "P", "Q", "R", "S", "T", "U", "V", "W", "X", "Y", "Z">>

\* str.lower() and str.upper() of one character; only Latin letters have
\* case among the characters of the model.
PyLowerChar(c) ==
    IF \E i \in 1..26 : UPPERCASE[i] = c
    THEN LOWERCASE[CHOOSE i \in 1..26 : UPPERCASE[i] = c]
    ELSE c
PyUpperChar(c) ==
    IF \E i \in 1..26 : LOWERCASE[i] = c
    THEN UPPERCASE[CHOOSE i \in 1..26 : LOWERCASE[i] = c]
    ELSE c

PyLower(s) == [i \in 1..Len(s) |-> PyLowerChar(s[i])]

\* str.capitalize(): the first character upper-cased, the rest lower-cased.
PyCapitalize(s) ==
    IF s = <<>> THEN s ELSE <<PyUpperChar(s[1])>> \o PyLower(Tail(s))

\* s.startswith(p) for a string p
PyStartsWithStr(s, p) == Len(s) >= Len(p) /\ SubSeq(s, 1, Len(p)) = p

\* itertools.combinations(range(lo, n), r), in the order it yields them.
RECURSIVE PyCombinations(_, _, _)
PyCombinations(lo, n, r) ==
    IF r = 0 THEN << <<>> >>
    ELSE IF n - lo < r THEN <<>>
    ELSE [i \in 1..Len(PyCombinations(lo + 1, n, r - 1)) |->
             <<lo>> \o PyCombinations(lo + 1, n, r - 1)[i]]
         \o PyCombinations(lo + 1, n, r)

(***************************************************************************)
(* gen_targeted.py                                                         *)
(***************************************************************************)
\* The entries of FAMILY_NAMES, JORDAN_CITIES, SYRIA_CITIES and SAUDI_CITIES
\* that the model runs on, as the lists of .values(): the variant 'yahya' of
\* 'yahya', 'salt' and 'SALT' of 'salt', 'hims' of 'homs' and 'buraydah' of
\* 'buraidah'.
tg_FAMILY_NAMES == << << <<"y", "a", "h", "y", "a">> >> >>
tg_JORDAN_CITIES == << << <<"s", "a", "l", "t">>, <<"S", "A", "L", "T">> >> >>
tg_SYRIA_CITIES == << << <<"h", "i", "m", "s">> >> >>
tg_SAUDI_CITIES == << << <<"b", "u", "r", "a", "y", "d", "a", "h">> >> >>

tg_SPECIALS ==
    << <<>>, <<"!">>, <<AT>>, <<HASH>>, <<"$">>, <<"%">>, <<"&">>, <<"*">>,
       <<"_">>, <<DASH>>, <<".">>, <<"+">>, <<"=">> >>

\* [str(y) for y in range(1900, 2026)], cut
tg_YEARS == ForEach(CutRange(1900, 2026, 1), LAMBDA y : <<PyStr(y)>>)
\* [str(y)[2:] for y in range(1950, 2026)], cut
tg_SHORT_YEARS ==
    ForEach(CutRange(1950, 2026, 1),
            LAMBDA y : <<PySlice(PyStr(y), 2, Len(PyStr(y)))>>)
\* [str(y) for y in range(1300, 1447)], cut
tg_HIJRI_YEARS == ForEach(CutRange(1300, 1447, 1), LAMBDA y : <<PyStr(y)>>)
\* [str(y)[2:] for y in range(1400, 1447)], cut
tg_SHORT_HIJRI ==
    ForEach(CutRange(1400, 1447, 1),
            LAMBDA y : <<PySlice(PyStr(y), 2, Len(PyStr(y)))>>)

tg_ALL_YEARS == tg_YEARS \o tg_SHORT_YEARS \o tg_HIJRI_YEARS \o tg_SHORT_HIJRI

tg_SEPARATORS ==
    << <<>>, <<SPACE>>, <<"_">>, <<DASH>>, <<".">>, <<AT>>, <<HASH>> >>

tg_ABU_PREFIXES_EN ==
    << <<"a", "b", "u">>, <<"A", "b", "u">>, <<"A", "B", "U">>,
       <<"a", "b", "o">>, <<"A", "b", "o">>, <<"A", "B", "O">> >>
tg_ABU_SEPARATORS == << <<>>, <<SPACE>>, <<"_">> >>

tg_generate_abu_variants(names_dict) ==
    ForEach(names_dict, LAMBDA variants :
      ForEach(variants, LAMBDA name :
        IF \/ PyStartsWithStr(PyLower(name), <<"a", "b", "u">>)
           \/ PyStartsWithStr(PyLower(name), <<"a", "b", "o">>)
        THEN <<>>
        ELSE ForEach(tg_ABU_PREFIXES_EN, LAMBDA abu :
               ForEach(tg_ABU_SEPARATORS, LAMBDA sep :
                 <<abu \o sep \o name>>))))

\* get_all_names with include_abu at its default, True
tg_get_all_names(include_names, include_cities) ==
    (IF include_names
     THEN Flatten(tg_FAMILY_NAMES) \o tg_generate_abu_variants(tg_FAMILY_NAMES)
     ELSE <<>>)
    \o (IF include_cities
        THEN Flatten(tg_JORDAN_CITIES) \o Flatten(tg_SYRIA_CITIES)
                 \o Flatten(tg_SAUDI_CITIES)
        ELSE <<>>)

\* Mutant: the length test is missing.
tg_yield_always(pwd) == <<pwd>>

\* `if 8 <= len(pwd) <= 20: yield pwd`, the two lines every generator of
\* gen_targeted.py ends its loop bodies with.
tg_yield_if_len_ok(pwd) ==
    IF 8 <= Len(pwd) /\ Len(pwd) <= 20 THEN <<pwd>> ELSE <<>>

tg_generate_name_year(names) ==
    ForEach(names, LAMBDA name :
      ForEach(tg_SPECIALS, LAMBDA spec :
        ForEach(tg_ALL_YEARS, LAMBDA year :
          tg_yield_if_len_ok(name \o spec \o year))))

tg_generate_year_name(names) ==
    ForEach(tg_ALL_YEARS, LAMBDA year :
      ForEach(tg_SPECIALS, LAMBDA spec :
        ForEach(names, LAMBDA name :
          tg_yield_if_len_ok(year \o spec \o name))))

tg_generate_name_special_name(names) ==
    ForEach(names, LAMBDA name1 :
      ForEach(tg_SEPARATORS, LAMBDA sep :
        ForEach(names, LAMBDA name2 :
          tg_yield_if_len_ok(name1 \o sep \o name2))))

tg_generate_name_name_year(names) ==
    ForEach(names, LAMBDA name1 :
      ForEach(tg_SEPARATORS, LAMBDA sep :
        ForEach(names, LAMBDA name2 :
          ForEach(tg_SHORT_YEARS \o tg_SHORT_HIJRI, LAMBDA year :
            tg_yield_if_len_ok(name1 \o sep \o name2 \o year)))))

\* The loops for 1, 2 and 3 digits; there is no loop for 4 digits.
tg_generate_name_digits(names) ==
    ForEach(names, LAMBDA name :
      ForEach(CutRange(0, 10, 1), LAMBDA d :
        tg_yield_if_len_ok(name \o PyStr(d)))
      \o ForEach(CutRange(0, 100, 1), LAMBDA d :
           tg_yield_if_len_ok(name \o PyFormatZeroPad(d, 2)))
      \o ForEach(CutRange(0, 1000, 1), LAMBDA d :
           tg_yield_if_len_ok(name \o PyFormatZeroPad(d, 3))))

tg_generate_name_special_digits(names) ==
    ForEach(names, LAMBDA name :
      ForEach(Tail(tg_SPECIALS), LAMBDA spec :
        ForEach(CutRange(0, 10000, 1), LAMBDA d :
          tg_yield_if_len_ok(name \o spec \o PyStr(d)))))

\* leet_map of generate_leet_speak: its keys, and its value for a key.
tg_leet_keys == {"a", "e", "i", "o", "s", "t"}
tg_leet_map(c) ==
    CASE c = "a" -> AT
      [] c = "e" -> "3"
      [] c = "i" -> "1"
      [] c = "o" -> "0"
      [] c = "s" -> "$"
      [] c = "t" -> "7"

\* positions: the (1-based) indices of the characters leet_map has.
tg_leet_positions(name_lower) ==
    SelectSeq([i \in 1..Len(name_lower) |-> i],
              LAMBDA i : name_lower[i] \in tg_leet_keys)

\* leet_str for one combo of (0-based) indices into positions.
tg_leet_str(name_lower, positions, combo) ==
    [p \in 1..Len(name_lower) |->
        IF \E j \in 1..Len(combo) : positions[combo[j] + 1] = p
        THEN tg_leet_map(name_lower[p])
        ELSE name_lower[p]]

tg_generate_leet_speak(names) ==
    ForEach(names, LAMBDA name :
      ForEach([r \in 1..Len(tg_leet_positions(PyLower(name))) |-> r], LAMBDA r :
        ForEach(PyCombinations(0, Len(tg_leet_positions(PyLower(name))), r),
                LAMBDA combo :
          ForEach(tg_ALL_YEARS, LAMBDA year :
            tg_yield_if_len_ok(
                tg_leet_str(PyLower(name), tg_leet_positions(PyLower(name)),
                            combo) \o year)
            \o ForEach(Tail(tg_SPECIALS), LAMBDA spec :
                 tg_yield_if_len_ok(
                     tg_leet_str(PyLower(name),
                                 tg_leet_positions(PyLower(name)), combo)
                         \o spec \o year))))))

\* The replacement field {name} of a format string.
NAME_FIELD == "{name}"

\* patterns of generate_common_patterns
tg_patterns ==
    <<<<NAME_FIELD, "1", "2", "3">>,
      <<NAME_FIELD, "1", "2", "3", "4">>,
      <<NAME_FIELD, "1", "2", "3", "4", "5">>,
      <<NAME_FIELD, "!">>,
      <<NAME_FIELD, "!", "!">>,
      <<NAME_FIELD, AT>>,
      <<NAME_FIELD, AT, AT>>,
      <<NAME_FIELD, HASH, "1">>,
      <<NAME_FIELD, AT, "1">>,
      <<NAME_FIELD, "!", "1">>,
      <<"1", "2", "3", NAME_FIELD>>,
      <<"1", "2", "3", "4", NAME_FIELD>>,
      <<NAME_FIELD, "a", "b", "c">>,
      <<NAME_FIELD, "x", "y", "z">>,
      <<"i", NAME_FIELD>>,
      <<"m", "y", NAME_FIELD>>,
      <<"t", "h", "e", NAME_FIELD>>,
      <<NAME_FIELD, "l", "o", "v", "e">>,
      <<"l", "o", "v", "e", NAME_FIELD>>,
      <<NAME_FIELD, "2", "0", "2", "0">>,
      <<NAME_FIELD, "2", "0", "2", "1">>,
      <<NAME_FIELD, "2", "0", "2", "2">>,
      <<NAME_FIELD, "2", "0", "2", "3">>,
      <<NAME_FIELD, "2", "0", "2", "4">>,
      <<NAME_FIELD, "1", "4", "4", "0">>,
      <<NAME_FIELD, "1", "4", "4", "1">>,
      <<NAME_FIELD, "1", "4", "4", "2">>,
      <<NAME_FIELD, "1", "4", "4", "3">>,
      <<NAME_FIELD, "1", "4", "4", "4">>,
      <<NAME_FIELD, "1", "4", "4", "5">>,
      <<NAME_FIELD, "1", "4", "4", "6">>>>

\* pattern.format(name=name)
PyFormatName(pat, name) ==
    ForEach(pat, LAMBDA c : IF c = NAME_FIELD THEN name ELSE <<c>>)

tg_generate_common_patterns(names) ==
    ForEach(names, LAMBDA name :
      ForEach(tg_patterns, LAMBDA pat :
        tg_yield_if_len_ok(PyFormatName(pat, name))
        \o tg_yield_if_len_ok(PyFormatName(pat, PyCapitalize(name)))))

tg_jordan_prefixes == << <<"0", "7", "7">>, <<"0", "7", "8">>, <<"0", "7", "9">> >>
tg_syria_prefixes ==
    << <<"0", "9", "1">>, <<"0", "9", "2">>, <<"0", "9", "3">>,
       <<"0", "9", "4">>, <<"0", "9", "5">>, <<"0", "9", "9">> >>

tg_generate_phone_patterns(names) ==
    ForEach(names, LAMBDA name :
      ForEach(tg_jordan_prefixes \o tg_syria_prefixes, LAMBDA prefix :
        ForEach(CutRange(0, 10000, 1), LAMBDA d :
          tg_yield_if_len_ok(name \o prefix \o PyFormatZeroPad(d, 4)))
        \o ForEach(CutRange(0, 100000, 1), LAMBDA d :
             tg_yield_if_len_ok(name \o prefix \o PyFormatZeroPad(d, 5))))
      \o ForEach(<< <<SPACE>>, <<"_">>, <<>> >>, LAMBDA sep :
           ForEach(tg_jordan_prefixes \o tg_syria_prefixes, LAMBDA prefix :
             ForEach(CutRange(0, 10000, 1), LAMBDA d :
               tg_yield_if_len_ok(
                   name \o sep \o prefix \o PyFormatZeroPad(d, 4))))))

tg_generate_digits_4(names) ==
    ForEach(names, LAMBDA name :
      ForEach(<< <<>>, <<SPACE>>, <<"_">>, <<DASH>>, <<".">> >>, LAMBDA sep :
        ForEach(CutRange(0, 10000, 1), LAMBDA d :
          tg_yield_if_len_ok(name \o sep \o PyFormatZeroPad(d, 4))
          \o tg_yield_if_len_ok(PyFormatZeroPad(d, 4) \o sep \o name))))

tg_generate_extended_digits(names) ==
    ForEach(names, LAMBDA name :
      ForEach(CutRange(0, 100000, 1), LAMBDA d :
        tg_yield_if_len_ok(name \o PyFormatZeroPad(d, 5)))
      \o ForEach(CutRange(0, 1000000, 1), LAMBDA d :
           tg_yield_if_len_ok(name \o PyFormatZeroPad(d, 6)))
      \o ForEach(CutRange(0, 10000000, 1000), LAMBDA d :
           tg_yield_if_len_ok(name \o PyFormatZeroPad(d, 7))))

\* The list `generators` of gen_targeted.main, by name.
tg_generators(args) ==
    <<"name_year", "year_name", "name_special_name", "name_name_year",
      "name_digits", "name_special_digits", "leet_speak", "common_patterns">>
    \o (IF args.phone THEN <<"phone_patterns">> ELSE <<>>)
    \o (IF args.digits4 THEN <<"digits_4">> ELSE <<>>)
    \o (IF args.extended THEN <<"extended_digits">> ELSE <<>>)

\* gen_func(names) for the entry gen_name of `generators`.
tg_gen_func(gen_name, names) ==
    CASE gen_name = "name_year" -> tg_generate_name_year(names)
      [] gen_name = "year_name" -> tg_generate_year_name(names)
      [] gen_name = "name_special_name" -> tg_generate_name_special_name(names)
      [] gen_name = "name_name_year" -> tg_generate_name_name_year(names)
      [] gen_name = "name_digits" -> tg_generate_name_digits(names)
      [] gen_name = "name_special_digits" ->
             tg_generate_name_special_digits(names)
      [] gen_name = "leet_speak" -> tg_generate_leet_speak(names)
      [] gen_name = "common_patterns" -> tg_generate_common_patterns(names)
      [] gen_name = "phone_patterns" -> tg_generate_phone_patterns(names)
      [] gen_name = "digits_4" -> tg_generate_digits_4(names)
      [] gen_name = "extended_digits" -> tg_generate_extended_digits(names)

\* The lines gen_targeted.main writes to stderr for the optional generators.
tg_including(args) ==
    (IF args.phone THEN <<[kind |-> "including_phone"]>> ELSE <<>>)
    \o (IF args.digits4 THEN <<[kind |-> "including_digits4"]>> ELSE <<>>)
    \o (IF args.extended THEN <<[kind |-> "including_extended"]>> ELSE <<>>)

(***************************************************************************)
(* gen_targeted_arabic.py                                                  *)
(***************************************************************************)
\* The entries of FAMILY_NAMES, JORDAN_CITIES and SYRIA_CITIES that the model
\* runs on, as the lists of .values(): the one variant of 'othman' with five
\* letters, the one of 'jerash', and the variant of 'deir_ezzor' with a
\* space.
ta_FAMILY_NAMES == << << <<AIN, THEH, MEEM, ALEF, NOON>> >> >>
ta_JORDAN_CITIES == << << <<JEEM, REH, SHEEN>> >> >>
ta_SYRIA_CITIES ==
    << << <<DAL, YEH, REH, SPACE, ALEF, LAM, ZAIN, WAW, REH>> >> >>

ta_SPECIALS ==
    << <<>>, <<"!">>, <<AT>>, <<HASH>>, <<"$">>, <<"%">>, <<"&">>, <<"*">>,
       <<"_">>, <<DASH>>, <<".">>, <<"+">>, <<"=">> >>

\* [str(y) for y in range(1900, 2026)], cut
ta_YEARS == ForEach(CutRange(1900, 2026, 1), LAMBDA y : <<PyStr(y)>>)
\* [str(y)[2:] for y in range(1950, 2026)], cut
ta_SHORT_YEARS ==
    ForEach(CutRange(1950, 2026, 1),
            LAMBDA y : <<PySlice(PyStr(y), 2, Len(PyStr(y)))>>)
\* [str(y) for y in range(1300, 1447)], cut
ta_HIJRI_YEARS == ForEach(CutRange(1300, 1447, 1), LAMBDA y : <<PyStr(y)>>)
\* [str(y)[2:] for y in range(1400, 1447)], cut
ta_SHORT_HIJRI ==
    ForEach(CutRange(1400, 1447, 1),
            LAMBDA y : <<PySlice(PyStr(y), 2, Len(PyStr(y)))>>)

ta_ALL_YEARS == ta_YEARS \o ta_SHORT_YEARS \o ta_HIJRI_YEARS \o ta_SHORT_HIJRI

ta_SEPARATORS ==
    << <<>>, <<SPACE>>, <<"_">>, <<DASH>>, <<".">>, <<AT>>, <<HASH>> >>

ta_ABU_PREFIXES_AR ==
    << <<ALEF, BEH, WAW>>, <<ALEF_HAMZA_ABOVE, BEH, WAW>>,
       <<ALEF, BEH, WAW, SPACE>>, <<ALEF_HAMZA_ABOVE, BEH, WAW, SPACE>> >>

ta_generate_abu_variants(names_dict) ==
    ForEach(names_dict, LAMBDA variants :
      ForEach(variants, LAMBDA name :
        ForEach(ta_ABU_PREFIXES_AR, LAMBDA abu : <<abu \o name>>)))

\* char_len(s): len(s), the number of code points
ta_char_len(s) == Len(s)

\* get_all_names with include_abu at its default, True
ta_get_all_names(include_names, include_cities) ==
    (IF include_names
     THEN Flatten(ta_FAMILY_NAMES) \o ta_generate_abu_variants(ta_FAMILY_NAMES)
     ELSE <<>>)
    \o (IF include_cities
        THEN Flatten(ta_JORDAN_CITIES) \o Flatten(ta_SYRIA_CITIES)
        ELSE <<>>)

\* Mutant: the upper limit of the length test is missing.
ta_yield_if_len_at_least(pwd) ==
    IF 8 <= ta_char_len(pwd) THEN <<pwd>> ELSE <<>>

\* `if 8 <= char_len(pwd) <= 20: yield pwd`, the two lines every generator
\* of gen_targeted_arabic.py ends its loop bodies with.
ta_yield_if_len_ok(pwd) ==
    IF 8 <= ta_char_len(pwd) /\ ta_char_len(pwd) <= 20 THEN <<pwd>> ELSE <<>>

ta_generate_name_year(names) ==
    ForEach(names, LAMBDA name :
      ForEach(ta_SPECIALS, LAMBDA spec :
        ForEach(ta_ALL_YEARS, LAMBDA year :
          ta_yield_if_len_ok(name \o spec \o year))))

ta_generate_year_name(names) ==
    ForEach(ta_ALL_YEARS, LAMBDA year :
      ForEach(ta_SPECIALS, LAMBDA spec :
        ForEach(names, LAMBDA name :
          ta_yield_if_len_ok(year \o spec \o name))))

ta_generate_name_space_year(names) ==
    ForEach(names, LAMBDA name :
      ForEach(ta_ALL_YEARS, LAMBDA year :
        ta_yield_if_len_ok(name \o <<SPACE>> \o year)
        \o ForEach(Tail(ta_SPECIALS), LAMBDA spec :
             ta_yield_if_len_ok(name \o <<SPACE>> \o spec \o year))))

ta_generate_name_special_name(names) ==
    ForEach(names, LAMBDA name1 :
      ForEach(ta_SEPARATORS, LAMBDA sep :
        ForEach(names, LAMBDA name2 :
          ta_yield_if_len_ok(name1 \o sep \o name2))))

\* The years 2020-2024 and 1440-1446 that generate_name_name_year and
\* generate_love_patterns list by hand.
ta_recent_years ==
    << <<"2", "0", "2", "0">>, <<"2", "0", "2", "1">>, <<"2", "0", "2", "2">>,
       <<"2", "0", "2", "3">>, <<"2", "0", "2", "4">>, <<"1", "4", "4", "0">>,
       <<"1", "4", "4", "1">>, <<"1", "4", "4", "2">>, <<"1", "4", "4", "3">>,
       <<"1", "4", "4", "4">>, <<"1", "4", "4", "5">>, <<"1", "4", "4", "6">> >>

ta_generate_name_name_year(names) ==
    ForEach(names, LAMBDA name1 :
      ForEach(ta_SEPARATORS, LAMBDA sep :
        ForEach(names, LAMBDA name2 :
          ForEach(ta_SHORT_YEARS \o ta_SHORT_HIJRI \o ta_recent_years,
                  LAMBDA year :
            ta_yield_if_len_ok(name1 \o sep \o name2 \o year)))))

\* The loops for 1, 2, 3 and 4 digits.
ta_generate_name_digits(names) ==
    ForEach(names, LAMBDA name :
      ForEach(CutRange(0, 10, 1), LAMBDA d :
        ta_yield_if_len_ok(name \o PyStr(d)))
      \o ForEach(CutRange(0, 100, 1), LAMBDA d :
           ta_yield_if_len_ok(name \o PyFormatZeroPad(d, 2)))
      \o ForEach(CutRange(0, 1000, 1), LAMBDA d :
           ta_yield_if_len_ok(name \o PyFormatZeroPad(d, 3)))
      \o ForEach(CutRange(0, 10000, 1), LAMBDA d :
           ta_yield_if_len_ok(name \o PyFormatZeroPad(d, 4))))

ta_generate_name_space_digits(names) ==
    ForEach(names, LAMBDA name :
      ForEach(CutRange(0, 10, 1), LAMBDA d :
        ta_yield_if_len_ok(name \o <<SPACE>> \o PyStr(d)))
      \o ForEach(CutRange(0, 100, 1), LAMBDA d :
           ta_yield_if_len_ok(name \o <<SPACE>> \o PyFormatZeroPad(d, 2)))
      \o ForEach(CutRange(0, 1000, 1), LAMBDA d :
           ta_yield_if_len_ok(name \o <<SPACE>> \o PyFormatZeroPad(d, 3)))
      \o ForEach(CutRange(0, 10000, 1), LAMBDA d :
           ta_yield_if_len_ok(name \o <<SPACE>> \o PyFormatZeroPad(d, 4))))

ta_generate_name_special_digits(names) ==
    ForEach(names, LAMBDA name :
      ForEach(Tail(ta_SPECIALS), LAMBDA spec :
        ForEach(CutRange(0, 10000, 1), LAMBDA d :
          ta_yield_if_len_ok(name \o spec \o PyStr(d)))))

\* prefixes and suffixes of generate_common_arabic_patterns
ta_prefixes ==
    << <<YEH, ALEF>>, <<ALEF, LAM>>, <<ALEF_HAMZA_ABOVE, NOON, ALEF>>,
       <<HAH, BEH>>, <<NOON, WAW, REH>> >>
ta_suffixes == << <<YEH>>, <<TEH, YEH>>, <<NOON, ALEF>>, <<KAF, MEEM>> >>

ta_generate_common_arabic_patterns(names) ==
    ForEach(names, LAMBDA name :
      ForEach(ta_prefixes, LAMBDA prefix :
        ta_yield_if_len_ok(prefix \o name)
        \o ForEach(ta_SHORT_YEARS \o ta_SHORT_HIJRI, LAMBDA year :
             ta_yield_if_len_ok(prefix \o name \o year)))
      \o ForEach(ta_suffixes, LAMBDA suffix :
           ta_yield_if_len_ok(name \o suffix)
           \o ForEach(ta_SHORT_YEARS \o ta_SHORT_HIJRI, LAMBDA year :
                ta_yield_if_len_ok(name \o suffix \o year))))

\* religious of generate_religious_patterns
ta_religious ==
    << <<ALEF, LAM, LAM, HEH>>, <<MEEM, HAH, MEEM, DAL>>, <<REH, BEH>>,
       <<HAH, MEEM, DAL>> >>

ta_generate_religious_patterns(names) ==
    ForEach(names, LAMBDA name :
      ForEach(ta_religious, LAMBDA rel :
        ta_yield_if_len_ok(name \o rel)
        \o ta_yield_if_len_ok(name \o <<SPACE>> \o rel)
        \o ta_yield_if_len_ok(rel \o name)
        \o ta_yield_if_len_ok(rel \o <<SPACE>> \o name)
        \o ForEach(ta_SHORT_YEARS \o ta_SHORT_HIJRI, LAMBDA year :
             ta_yield_if_len_ok(name \o rel \o year))))

\* love_words of generate_love_patterns
ta_love_words ==
    << <<HAH, BEH>>, <<HAH, BEH, YEH>>, <<HAH, BEH, YEH, BEH>>,
       <<HAH, BEH, YEH, BEH, YEH>>, <<HAH, BEH, YEH, BEH, TEH, YEH>>,
       <<AIN, MEEM, REH>>, <<AIN, MEEM, REH, YEH>>, <<REH, WAW, HAH>>,
       <<REH, WAW, HAH, YEH>>, <<QAF, LAM, BEH>>, <<QAF, LAM, BEH, YEH>> >>

ta_generate_love_patterns(names) ==
    ForEach(names, LAMBDA name :
      ForEach(ta_love_words, LAMBDA love :
        ta_yield_if_len_ok(love \o name)
        \o ta_yield_if_len_ok(love \o <<SPACE>> \o name)
        \o ta_yield_if_len_ok(name \o love)
        \o ta_yield_if_len_ok(name \o <<SPACE>> \o love)
        \o ForEach(ta_recent_years, LAMBDA year :
             ta_yield_if_len_ok(love \o name \o year))))

ta_jordan_prefixes == << <<"0", "7", "7">>, <<"0", "7", "8">>, <<"0", "7", "9">> >>
ta_syria_prefixes ==
    << <<"0", "9", "1">>, <<"0", "9", "2">>, <<"0", "9", "3">>,
       <<"0", "9", "4">>, <<"0", "9", "5">>, <<"0", "9", "9">> >>

ta_generate_phone_patterns(names) ==
    ForEach(names, LAMBDA name :
      ForEach(ta_jordan_prefixes \o ta_syria_prefixes, LAMBDA prefix :
        ForEach(CutRange(0, 10000, 1), LAMBDA d :
          ta_yield_if_len_ok(name \o prefix \o PyFormatZeroPad(d, 4)))
        \o ForEach(CutRange(0, 100000, 1), LAMBDA d :
             ta_yield_if_len_ok(name \o prefix \o PyFormatZeroPad(d, 5))))
      \o ForEach(ta_jordan_prefixes \o ta_syria_prefixes, LAMBDA prefix :
           ForEach(CutRange(0, 10000, 1), LAMBDA d :
             ta_yield_if_len_ok(
                 name \o <<SPACE>> \o prefix \o PyFormatZeroPad(d, 4)))))

ta_generate_extended_digits(names) ==
    ForEach(names, LAMBDA name :
      ForEach(CutRange(0, 100000, 1), LAMBDA d :
        ta_yield_if_len_ok(name \o PyFormatZeroPad(d, 5)))
      \o ForEach(CutRange(0, 1000000, 1), LAMBDA d :
           ta_yield_if_len_ok(name \o PyFormatZeroPad(d, 6)))
      \o ForEach(CutRange(0, 10000000, 1000), LAMBDA d :
           ta_yield_if_len_ok(name \o PyFormatZeroPad(d, 7))))

\* The list `generators` of gen_targeted_arabic.main, by name.
ta_generators(args) ==
    <<"name_year", "year_name", "name_space_year", "name_special_name",
      "name_name_year", "name_digits", "name_space_digits",
      "name_special_digits", "common_arabic_patterns", "religious_patterns",
      "love_patterns">>
    \o (IF args.phone THEN <<"phone_patterns">> ELSE <<>>)
    \o (IF args.extended THEN <<"extended_digits">> ELSE <<>>)

\* gen_func(names) for the entry gen_name of `generators`.
ta_gen_func(gen_name, names) ==
    CASE gen_name = "name_year" -> ta_generate_name_year(names)
      [] gen_name = "year_name" -> ta_generate_year_name(names)
      [] gen_name = "name_space_year" -> ta_generate_name_space_year(names)
      [] gen_name = "name_special_name" -> ta_generate_name_special_name(names)
      [] gen_name = "name_name_year" -> ta_generate_name_name_year(names)
      [] gen_name = "name_digits" -> ta_generate_name_digits(names)
      [] gen_name = "name_space_digits" -> ta_generate_name_space_digits(names)
      [] gen_name = "name_special_digits" ->
             ta_generate_name_special_digits(names)
      [] gen_name = "common_arabic_patterns" ->
             ta_generate_common_arabic_patterns(names)
      [] gen_name = "religious_patterns" ->
             ta_generate_religious_patterns(names)
      [] gen_name = "love_patterns" -> ta_generate_love_patterns(names)
      [] gen_name = "phone_patterns" -> ta_generate_phone_patterns(names)
      [] gen_name = "extended_digits" -> ta_generate_extended_digits(names)

\* The lines gen_targeted_arabic.main writes to stderr for the optional
\* generators.
ta_including(args) ==
    (IF args.phone THEN <<[kind |-> "including_phone"]>> ELSE <<>>)
    \o (IF args.extended THEN <<[kind |-> "including_extended"]>> ELSE <<>>)

(***************************************************************************)
(* The main functions of gen_targeted.py and gen_targeted_arabic.py. One   *)
(* step of the loop over `generators` runs one generator to its end; what  *)
(* it yields and what main prints of it are kept as sets.                  *)
(***************************************************************************)
\* gen_targeted_arabic.py has no --digits4 option.
TargetedArgs(prog) ==
    IF prog = "targeted"
    THEN [cities : BOOLEAN, no_names : BOOLEAN, only_cities : BOOLEAN,
          phone : BOOLEAN, digits4 : BOOLEAN, extended : BOOLEAN]
    ELSE [cities : BOOLEAN, no_names : BOOLEAN, only_cities : BOOLEAN,
          phone : BOOLEAN, extended : BOOLEAN]

TargetedIdle ==
    /\ FilterOff /\ MainOff /\ PatternOff /\ GenOff /\ LoadOff /\ DigitOff
    /\ CliOff /\ WordsOff
targeted_others ==
    <<filter_vars, main_vars, pattern_vars, gen_vars, load_vars, digit_vars,
      cli_vars, words_vars>>

InitTargeted ==
    /\ tg_prog \in {"targeted", "targeted_arabic"}
    /\ tg_args \in TargetedArgs(tg_prog)
    /\ tg_pc = "start"
    /\ tg_names = <<>>
    /\ tg_gens = <<>>
    /\ tg_g = 0
    /\ tg_seen = {}
    /\ tg_yielded = {}
    /\ tg_printed = {}
    /\ tg_count = 0
    /\ tg_stderr = <<>>
    /\ tg_exit = <<>>
    /\ TargetedIdle

\* args after `if args.only_cities: args.cities = True; args.no_names = True`
targeted_only_cities(args) ==
    IF args.only_cities
    THEN [args EXCEPT !.cities = TRUE, !.no_names = TRUE]
    ELSE args

\* main up to the loop over `generators`: the names, or the error exit.
TargetedStart ==
    /\ tg_pc = "start"
    /\ tg_args' = targeted_only_cities(tg_args)
    /\ IF tg_args'.no_names /\ ~ tg_args'.cities
       THEN /\ tg_stderr' = <<[kind |-> "error"]>>
            /\ tg_exit' = <<1>>
            /\ tg_pc' = "exit"
            /\ UNCHANGED <<tg_names, tg_gens>>
       ELSE /\ tg_names' =
                  IF tg_prog = "targeted"
                  THEN tg_get_all_names(~ tg_args'.no_names, tg_args'.cities)
                  ELSE ta_get_all_names(~ tg_args'.no_names, tg_args'.cities)
            /\ tg_gens' = IF tg_prog = "targeted" THEN tg_generators(tg_args')
                          ELSE ta_generators(tg_args')
            /\ tg_stderr' =
                  <<[kind |-> "using", n |-> Len(tg_names')]>>
                      \o (IF tg_prog = "targeted" THEN tg_including(tg_args')
                          ELSE ta_including(tg_args'))
            /\ tg_pc' = "run"
            /\ UNCHANGED tg_exit
    /\ UNCHANGED <<tg_prog, tg_g, tg_seen, tg_yielded, tg_printed, tg_count,
                   targeted_others>>

\* The set of the items of a list.
Items(s) == {s[i] : i \in 1..Len(s)}

\* One pass of `for gen_name, gen_func in generators`, with its inner loop
\* `for pwd in gen_func(names)`: every pwd not yet in `seen` is added to it,
\* printed and counted.
TargetedRunGenerator ==
    /\ tg_pc = "run"
    /\ tg_g < Len(tg_gens)
    /\ tg_yielded' =
          Items(IF tg_prog = "targeted"
                THEN tg_gen_func(tg_gens[tg_g + 1], tg_names)
                ELSE ta_gen_func(tg_gens[tg_g + 1], tg_names))
    /\ tg_printed' = tg_yielded' \ tg_seen
    /\ tg_seen' = tg_seen \cup tg_yielded'
    /\ tg_count' = tg_count + Cardinality(tg_printed')
    /\ tg_g' = tg_g + 1
    /\ UNCHANGED <<tg_prog, tg_args, tg_pc, tg_names, tg_gens, tg_stderr,
                   tg_exit, targeted_others>>

\* The loop over `generators` is exhausted: the total, and the normal end.
TargetedEnd ==
    /\ tg_pc = "run"
    /\ tg_g = Len(tg_gens)
    /\ tg_stderr' = Append(tg_stderr, [kind |-> "total", n |-> tg_count])
    /\ tg_exit' = <<0>>
    /\ tg_pc' = "exit"
    /\ UNCHANGED <<tg_prog, tg_args, tg_names, tg_gens, tg_g, tg_seen,
                   tg_yielded, tg_printed, tg_count, targeted_others>>

NextTargeted == TargetedStart \/ TargetedRunGenerator \/ TargetedEnd

SpecTargeted == InitTargeted /\ [][NextTargeted]_vars

(***************************************************************************)
(* The filter's rules as the specification states them, by position.       *)
(***************************************************************************)
Returned(ret) == ret # <<>>
Rejected(ret) == ret = <<FALSE>>
Accepted(ret) == ret = <<TRUE>>

HasVowelLetter(s) == \E k \in 1..Len(s) : s[k] \in {ALEF, WAW, YEH}

HasBannedBigram(s) ==
    \E i \in 1..(Len(s) - 1) :
        s[i] = s[i + 1] /\ s[i] \in {ALEF, WAW, YEH, HAMZA}

\* hamza at a 0-based index i with 1 <= i <= length-2
HasInteriorHamza(s) == \E i \in 2..(Len(s) - 1) : s[i] = HAMZA

HasNonFinalTehOrMaksura(s) ==
    \E i \in 1..(Len(s) - 1) : s[i] \in {TEH_MARBUTA, ALEF_MAKSURA}

StartsWithHamzaSeat(s) == Len(s) >= 1 /\ s[1] \in {WAW_HAMZA, YEH_HAMZA}

Rule1(s) == Len(s) >= 4 => HasVowelLetter(s)
Rule2(s) == ~ HasBannedBigram(s)
Rule3(s) == ~ (Len(s) > 2 /\ HasInteriorHamza(s))
Rule4(s) == ~ HasNonFinalTehOrMaksura(s)
Rule5(s) == ~ StartsWithHamzaSeat(s)

(***************************************************************************)
(* Claims about is_likely_arabic_word (SpecFilter).                        *)
(***************************************************************************)
\* C1: the empty string is rejected by both implementations of
\* is_likely_arabic_word (filter_arabic.py and gen_arabic_pairs.py).
C1_EmptyRejectedByBoth ==
    seq = <<>> =>
        /\ Returned(fa_ret) => Rejected(fa_ret)
        /\ Returned(gp_ret) => Rejected(gp_ret)

\* C2: a string of length >= 4 without any of the vowel letters alef, waw,
\* yeh is rejected by both implementations.
C2_NoVowelRejected ==
    (Len(seq) >= 4 /\ ~ HasVowelLetter(seq)) =>
        /\ Returned(fa_ret) => Rejected(fa_ret)
        /\ Returned(gp_ret) => Rejected(gp_ret)

C2_Witness ==
    /\ seq = <<BEH, BEH, BEH, BEH>>
    /\ Rejected(fa_ret)
    /\ Rejected(gp_ret)

\* C3: a string containing a doubled alef, waw, yeh or hamza anywhere,
\* whatever its length, is rejected by both implementations.
C3_BannedBigramRejected ==
    HasBannedBigram(seq) =>
        /\ Returned(fa_ret) => Rejected(fa_ret)
        /\ Returned(gp_ret) => Rejected(gp_ret)

C3_Witness ==
    /\ seq = <<BEH, YEH, YEH>>
    /\ Rejected(fa_ret)
    /\ Rejected(gp_ret)

\* C4: a string of length > 2 with a hamza at an interior index is rejected
\* by both implementations; a hamza at index 0 or at the last index only does
\* not by itself reject: such a string passing the other rules is accepted.
C4_InteriorHamzaRejected ==
    /\ (Len(seq) > 2 /\ HasInteriorHamza(seq)) =>
          /\ Returned(fa_ret) => Rejected(fa_ret)
          /\ Returned(gp_ret) => Rejected(gp_ret)
    /\ ( /\ Len(seq) >= 1
         /\ seq[1] = HAMZA \/ seq[Len(seq)] = HAMZA
         /\ ~ HasInteriorHamza(seq) ) =>
          /\ (Returned(gp_ret) /\ Rule1(seq) /\ Rule2(seq)) => Accepted(gp_ret)
          /\ (Returned(fa_ret) /\ Rule1(seq) /\ Rule2(seq)
                /\ Rule4(seq) /\ Rule5(seq)) => Accepted(fa_ret)

C4_Witness ==
    /\ seq = <<BEH, HAMZA, BEH>>
    /\ Rejected(fa_ret)
    /\ Rejected(gp_ret)

\* C5: the standalone filter rejects every string with teh marbuta or alef
\* maksura at a position other than the last.
C5_NonFinalRejected ==
    HasNonFinalTehOrMaksura(seq) => (Returned(fa_ret) => Rejected(fa_ret))

C5_Witness ==
    /\ seq = <<BEH, ALEF_MAKSURA, ALEF>>
    /\ Rejected(fa_ret)
    /\ Accepted(gp_ret)

\* C6: the standalone filter rejects every non-empty string starting with
\* waw-hamza or yeh-hamza.
C6_HamzaSeatFirstRejected ==
    (seq # <<>> /\ seq[1] \in {WAW_HAMZA, YEH_HAMZA}) =>
        (Returned(fa_ret) => Rejected(fa_ret))

C6_Witness ==
    /\ seq = <<YEH_HAMZA, ALEF, BEH>>
    /\ Rejected(fa_ret)
    /\ Accepted(gp_ret)

\* C7: on a non-empty string the standalone filter's verdict is the
\* conjunction of rules 1-5; nothing else rejects.
C7_VerdictIsFiveRules ==
    (seq # <<>> /\ Returned(fa_ret)) =>
        fa_ret = <<Rule1(seq) /\ Rule2(seq) /\ Rule3(seq)
                     /\ Rule4(seq) /\ Rule5(seq)>>

C7_Witness ==
    /\ seq = <<HAMZA, BEH, YEH, HAMZA>>
    /\ Accepted(fa_ret)

(***************************************************************************)
(* Claims about filter_arabic.main (SpecMain).                             *)
(***************************************************************************)
\* The lines of a text: each ends at its newline, the last one possibly
\* without a newline.
RECURSIVE LinesOf(_)
LinesOf(text) ==
    IF text = <<>> THEN <<>>
    ELSE IF \E k \in 1..Len(text) : text[k] = NL
    THEN LET k == CHOOSE k \in 1..Len(text) :
                      text[k] = NL /\ \A j \in 1..(k - 1) : text[j] # NL
         IN  <<SubSeq(text, 1, k)>> \o LinesOf(SubSeq(text, k + 1, Len(text)))
    ELSE <<text>>

\* A line without its trailing newline.
Content(line) ==
    IF line # <<>> /\ line[Len(line)] = NL
    THEN SubSeq(line, 1, Len(line) - 1)
    ELSE line

FilterAccepts(line) == filter_arabic_is_likely_arabic_word(Content(line))

RECURSIVE Concat(_)
Concat(ss) == IF ss = <<>> THEN <<>> ELSE Head(ss) \o Concat(Tail(ss))

\* C8: the output is exactly the accepted lines of the input read so far,
\* each unmodified and in input order; at the end of main it is the
\* subsequence of accepted lines of the whole input.
C8_OutputIsAcceptedLines ==
    main_pc \in {"loop", "done"} =>
        /\ stdout_data =
              Concat(SelectSeq(LinesOf(SubSeq(stdin_data, 1, stdin_pos)),
                               FilterAccepts))
        /\ main_pc = "done" => stdin_pos = Len(stdin_data)

C8_Witness ==
    /\ main_pc = "done"
    /\ stdin_data = <<ALEF, NL, NL, HAMZA, BEH>>
    /\ stdout_data = <<ALEF, NL, HAMZA, BEH>>

(***************************************************************************)
(* Claims about apply_pattern (SpecPattern).                               *)
(***************************************************************************)
\* What a pattern symbol other than the gemination marker stands for.
Subst(rt, c) ==
    CASE c = FEH -> rt[1]
      [] c = AIN -> rt[2]
      [] c = LAM -> rt[3]
      [] OTHER -> c

Prefix(s, k) == SubSeq(s, 1, k)

\* The claim for one implementation, ap being its apply_pattern and ret its
\* return channel.
EmitsSlotsAndLiterals(ap(_, _), ret) ==
    (Len(root) = 3 /\ Returned(ret)) =>
        /\ ret[1].kind = "str"
        /\ ap(root, <<>>) = Str(<<>>)
        /\ \A k \in 1..Len(pattern) :
              pattern[k] # SHADDA =>
                  ap(root, Prefix(pattern, k)).val =
                      Append(ap(root, Prefix(pattern, k - 1)).val,
                             Subst(root, pattern[k]))
        /\ (\A k \in 1..Len(pattern) : pattern[k] # SHADDA) =>
              ret[1].val = [k \in 1..Len(pattern) |-> Subst(root, pattern[k])]
        /\ (root = <<KAF, TEH, BEH>> /\ pattern = <<FEH, ALEF, AIN, LAM>>) =>
              ret[1].val = <<KAF, ALEF, TEH, BEH>>
        /\ (root = <<KAF, TEH, BEH>> /\ pattern = <<MEEM, FEH, AIN, WAW, LAM>>) =>
              ret[1].val = <<MEEM, KAF, TEH, WAW, BEH>>

\* C9: on a 3-character root apply_pattern emits, symbol by symbol from the
\* left, root[0] for feh, root[1] for ain, root[2] for lam and any other
\* symbol but the gemination marker verbatim; a substituted letter is not
\* substituted again. Both implementations.
C9_ApplyPatternSubstitutes ==
    /\ EmitsSlotsAndLiterals(gen_from_roots_apply_pattern, gr_ret)
    /\ EmitsSlotsAndLiterals(gen_arabic_passwords_apply_pattern, pw_ret)

C9_Witness ==
    /\ root = <<AIN, LAM, FEH>>
    /\ pattern = <<FEH, ALEF, AIN, LAM>>
    /\ gr_ret = <<Str(<<AIN, ALEF, LAM, FEH>>)>>
    /\ pw_ret = <<Str(<<AIN, ALEF, LAM, FEH>>)>>

\* C10: apply_pattern returns None whenever the root does not have exactly
\* 3 characters, for every pattern, the empty one included. Both
\* implementations.
C10_WrongLengthIsNone ==
    Len(root) # 3 =>
        /\ Returned(gr_ret) => gr_ret = <<None>>
        /\ Returned(pw_ret) => pw_ret = <<None>>

C10_Witness ==
    /\ Len(root) = 4
    /\ pattern = <<>>
    /\ gr_ret = <<None>>
    /\ pw_ret = <<None>>

\* The characters of a str, as a set.
Chars(s) == {s[k] : k \in 1..Len(s)}

\* Every gemination marker of the pattern that follows an emitted character
\* emits a copy of the character emitted just before it.
GeminationCopiesPrevious ==
    \A k \in 1..Len(pattern) :
        LET before == gen_from_roots_apply_pattern(root, Prefix(pattern, k - 1)).val
            after == gen_from_roots_apply_pattern(root, Prefix(pattern, k)).val
        IN  (pattern[k] = SHADDA /\ before # <<>>) =>
                after = Append(before, before[Len(before)])

\* C11 as stated: a gemination marker after an emitted character emits a
\* copy of that character, and the shadda never appears in the result.
C11_ShaddaNeverInResult ==
    (Len(root) = 3 /\ Returned(gr_ret)) =>
        /\ GeminationCopiesPrevious
        /\ SHADDA \notin Chars(gr_ret[1].val)

\* C11 amended: a gemination marker after an emitted character emits a copy
\* of that character, and the shadda appears in the result only when the
\* root itself contains it: a pattern's marker is never emitted.
C11_ShaddaOnlyFromRoot ==
    (Len(root) = 3 /\ Returned(gr_ret)) =>
        /\ GeminationCopiesPrevious
        /\ SHADDA \notin Chars(root) => SHADDA \notin Chars(gr_ret[1].val)

C11_Witness ==
    /\ root = <<KAF, TEH, BEH>>
    /\ pattern = <<FEH, AIN, SHADDA, LAM>>
    /\ gr_ret = <<Str(<<KAF, TEH, TEH, BEH>>)>>

(***************************************************************************)
(* Claims about the generator loops (SpecGen).                             *)
(***************************************************************************)
\* No two positions of s hold the same value.
NoDuplicates(s) == Cardinality({s[i] : i \in 1..Len(s)}) = Len(s)

DigitChars == {DIGITS[i] : i \in 1..Len(DIGITS)}
HasNoDigit(line) == \A k \in 1..Len(line) : line[k] \notin DigitChars

\* The words among the lines printed. In the ranges of GenDigitRanges with
\* min_digits = 0 each word is printed once with the empty suffix, so the
\* words are the lines without a digit; in the reversed range no line is
\* printed at all.
EmittedWords ==
    IF gen_prog = "roots" THEN SelectSeq(gen_out, HasNoDigit) ELSE gen_out

\* C12: within one invocation the generator never emits the same word
\* twice, whatever the lists of roots and patterns, repeated entries included.
C12_NoDuplicateWord ==
    gen_pc \in {"loop", "done"} =>
        NoDuplicates(gen_out) /\ NoDuplicates(EmittedWords)

C12_Witness ==
    /\ gen_prog = "roots"
    /\ gen_pc = "done"
    /\ gen_roots = <<<<KAF, TEH, BEH>>, <<KAF, TEH, BEH>>>>
    /\ gen_patterns = <<<<FEH, AIN, WAW, LAM>>, <<FEH, AIN, WAW, LAM>>>>
    /\ gen_digits = <<0, 0>>
    /\ gen_out = <<<<KAF, TEH, WAW, BEH>>>>

\* The number of steps an invocation still has to take.
GenRemaining ==
    (Len(gen_roots) * Len(gen_patterns) - gen_k)
        + (IF gen_pc = "loop" THEN 1 ELSE 0)

\* C14: every invocation of the generator ends (while it runs a step is
\* possible, and each step of an invocation lowers the number of steps left,
\* which is never negative), and the number of words it has emitted never
\* exceeds len(roots) * len(patterns).
C14_TerminatesWithinBound ==
    /\ [](gen_pc = "loop" => ENABLED NextGen)
    /\ [](GenRemaining >= 0)
    /\ [][gen_run' = gen_run => GenRemaining' < GenRemaining]_vars
    /\ [](Len(EmittedWords) <= Len(gen_roots) * Len(gen_patterns))

C14_Witness ==
    /\ gen_pc = "done"
    /\ Len(gen_roots) = 2
    /\ Len(gen_patterns) = 2
    /\ Len(EmittedWords) = 4

GenApply(rt, pat) ==
    IF gen_prog = "roots" THEN gen_from_roots_apply_pattern(rt, pat)
    ELSE gen_arabic_passwords_apply_pattern(rt, pat)

\* The results over all pairs, roots outer and patterns inner.
GenResults ==
    [k \in 1..(Len(gen_roots) * Len(gen_patterns)) |->
        GenApply(GenRootAt(k - 1), GenPatternAt(k - 1))]

IsStr(r) == r.kind = "str"
ValOf(rs) == [k \in 1..Len(rs) |-> rs[k].val]

\* s with every entry dropped that occurs earlier in s.
FirstOccurrences(s) ==
    LET keep == {i \in 1..Len(s) : \A j \in 1..(i - 1) : s[j] # s[i]}
        F[i \in 0..Len(s)] ==
            IF i = 0 THEN <<>>
            ELSE IF i \in keep THEN Append(F[i - 1], s[i]) ELSE F[i - 1]
    IN  F[Len(s)]

PassesDoubledLetterCheck(w) == ~ HasBannedBigram(w)

\* The sequence the claim describes.
ExpectedWords ==
    SelectSeq(FirstOccurrences(ValOf(SelectSeq(GenResults, IsStr))),
              PassesDoubledLetterCheck)

\* C13: the words emitted are exactly the non-None results over all pairs,
\* roots outer and patterns inner, each kept at its first occurrence only and
\* those failing the doubled-letter check removed, in order of production.
C13_EmitsExactlyExpected ==
    gen_pc = "done" => EmittedWords = ExpectedWords

(***************************************************************************)
(* load_roots as the specification states it.                              *)
(***************************************************************************)
IsBlankChar(c) == c \in {SPACE, TAB, NL}

\* The line from its first to its last non-blank character.
Trimmed(l) ==
    LET ks == {k \in 1..Len(l) : ~ IsBlankChar(l[k])}
    IN  IF ks = {} THEN <<>>
        ELSE SubSeq(l, CHOOSE k \in ks : \A j \in ks : k <= j,
                       CHOOSE k \in ks : \A j \in ks : j <= k)

IsRootLetter(c) == c \notin {DASH, SPACE}

\* The trimmed line with every '-' and space removed.
Normalized(l) == SelectSeq(Trimmed(l), IsRootLetter)

IsRootLine(l) ==
    /\ Trimmed(l) # <<>>
    /\ Trimmed(l)[1] # HASH
    /\ Len(Normalized(l)) = 3

ExpectedRoots(file) ==
    LET kept == SelectSeq(file, IsRootLine)
    IN  [i \in 1..Len(kept) |-> Normalized(kept[i])]

ThreeForms ==
    {<<KAF, TEH, BEH>>, <<KAF, DASH, TEH, DASH, BEH>>,
     <<KAF, SPACE, TEH, SPACE, BEH>>}

\* C16: load_roots returns, in file order, exactly the lines that after
\* trimming are non-blank, do not start with '#' and have 3 characters once
\* every '-' and space is removed, each as that normalized string; the three
\* spellings of k-t-b load as the same root, and every line is read without
\* error.
C16_LoadRootsKeepsRootLines ==
    /\ lr_pc \in {"loop", "returned"} =>
           lr_roots = ExpectedRoots(SubSeq(lr_file, 1, lr_i))
    /\ lr_pc = "returned" => lr_i = Len(lr_file)
    /\ lr_pc = "loop" => ENABLED NextLoad
    /\ \A i \in 1..lr_i :
           Trimmed(lr_file[i]) \in ThreeForms =>
               \E j \in 1..Len(lr_roots) : lr_roots[j] = <<KAF, TEH, BEH>>

\* A file of the dashed spelling, the spaced spelling and another root has
\* loaded.
C16_Witness ==
    /\ lr_pc = "returned"
    /\ Len(lr_file) = 3
    /\ {Trimmed(lr_file[i]) : i \in 1..3} =
           {<<KAF, DASH, TEH, DASH, BEH>>, <<KAF, SPACE, TEH, SPACE, BEH>>,
            <<QAF, WAW, LAM>>}
    /\ Len(lr_roots) = 3
    /\ <<KAF, TEH, BEH>> \in {lr_roots[i] : i \in 1..3}

(***************************************************************************)
(* The digit suffixes as the specification states them.                    *)
(***************************************************************************)
DigitStrings(d) == [1..d -> DigitChars]

RECURSIVE SumPow10(_, _)
SumPow10(lo, hi) == IF lo > hi THEN 0 ELSE SumPow10(lo, hi - 1) + 10 ^ hi

SuffixSet == {ds_out[i] : i \in 1..Len(ds_out)}

\* C19: the suffixes are the empty suffix if and only if min = 0, then every
\* digit string of each length from max(1, min) to max, each once and
\* shorter lengths first; a range n-n gives exactly the n-digit strings; and
\* their number is digit_count, 1 if min = 0 plus the sum of the 10^d.
C19_SuffixesAreTheRange ==
    ds_pc = "done" =>
        LET min == ds_range[1]
            max == ds_range[2]
            lo == IF min >= 1 THEN min ELSE 1
        IN  /\ (<<>> \in SuffixSet) <=> (min = 0)
            /\ min = 0 => ds_out[1] = <<>>
            /\ SuffixSet \ {<<>>} = UNION {DigitStrings(d) : d \in lo..max}
            /\ Cardinality(SuffixSet) = Len(ds_out)
            /\ \A i \in 1..(Len(ds_out) - 1) :
                   Len(ds_out[i]) <= Len(ds_out[i + 1])
            /\ (min = max /\ min >= 1) => SuffixSet = DigitStrings(min)
            /\ ds_count = <<Len(ds_out)>>
            /\ ds_count = <<(IF min = 0 THEN 1 ELSE 0) + SumPow10(lo, max)>>

\* The range 0-2 has been enumerated: the empty suffix and 110 digit strings.
C19_Witness ==
    /\ ds_pc = "done"
    /\ ds_range = <<0, 2>>
    /\ Len(ds_out) = 111
    /\ ds_out[1] = <<>>
    /\ ds_out[2] = <<"0">>
    /\ ds_out[111] = <<"9", "9">>

(***************************************************************************)
(* Claims about the command lines (SpecCli).                               *)
(***************************************************************************)
CandidateLines == SelectSeq(cli_stdout, LAMBDA l : l.kind = "candidate")
StderrKinds == {cli_stderr[i].kind : i \in 1..Len(cli_stderr)}
StdoutKinds == {cli_stdout[i].kind : i \in 1..Len(cli_stdout)}

\* The process has started to enumerate candidates.
Enumerating == cli_pc \in {"words", "loop"} \/ cli_k # 0 \/ cli_seen # {}

\* gen_from_roots in generation or estimate mode, its roots file missing.
RootsFileMissing ==
    /\ cli_prog = "roots"
    /\ ~ cli_args.patterns
    /\ cli_args.roots_file = <<>>

\* C17: when the roots file is missing, gen_from_roots, in generation mode as
\* in estimate mode, ends with a non-zero status and an error report on
\* stderr, which is the missing-file message whenever --digits has parsed;
\* nothing reaches stdout and no enumeration starts before the exit.
C17_MissingRootsFileIsFatal ==
    RootsFileMissing =>
        /\ cli_stdout = <<>>
        /\ ~ Enumerating
        /\ cli_pc # "exit" => ENABLED NextCli
        /\ cli_pc = "exit" =>
               /\ cli_exit # <<>> /\ cli_exit # <<0>>
               /\ cli_stderr # <<>>
               /\ StderrKinds \subseteq {"roots_not_found", "traceback"}
               /\ cli_range # <<>> => StderrKinds = {"roots_not_found"}

\* gen_from_roots --estimate has ended on a missing roots file.
C17_Witness ==
    /\ RootsFileMissing
    /\ cli_args.estimate
    /\ cli_pc = "exit"
    /\ cli_exit = <<1>>
    /\ cli_stderr = <<[kind |-> "roots_not_found"]>>
    /\ cli_stdout = <<>>

\* A non-empty string of digits.
IsNumeral(s) ==
    s # <<>> /\ \A i \in 1..Len(s) : s[i] \in {DIGITS[d] : d \in 1..Len(DIGITS)}

\* The number a numeral denotes.
NumeralValue(s) ==
    LET D[i \in 0..Len(s)] ==
            IF i = 0 THEN 0
            ELSE 10 * D[i - 1]
                 + (CHOOSE d \in 0..9 : DIGITS[d + 1] = s[i])
    IN  D[Len(s)]

\* The documented forms of --digits: 'N', or 'N-M' that is not reversed.
DocumentedDigits(s) ==
    \/ IsNumeral(s)
    \/ \E i \in 1..Len(s) :
          /\ s[i] = DASH
          /\ IsNumeral(SubSeq(s, 1, i - 1))
          /\ IsNumeral(SubSeq(s, i + 1, Len(s)))
          /\ NumeralValue(SubSeq(s, 1, i - 1))
                 <= NumeralValue(SubSeq(s, i + 1, Len(s)))

\* The run reads --digits, and its value is not of the documented forms.
MalformedDigits ==
    /\ cli_prog \in {"roots", "pairs"}
    /\ cli_prog = "roots" => ~ cli_args.patterns
    /\ ~ DocumentedDigits(cli_args.digits)

\* C18: a --digits value that is not of the documented forms is fatal: no
\* candidate is printed and the process ends with a non-zero status.
C18_MalformedDigitsIsFatal ==
    MalformedDigits =>
        /\ CandidateLines = <<>>
        /\ cli_pc = "exit" => cli_exit # <<0>>

\* C20: with --estimate the three programs write no candidate line to
\* stdout and never start to enumerate; a run that ends normally has written
\* its estimate to stderr and nothing to stdout, unless --patterns asked for
\* the listing instead.
C20_EstimateWritesNoCandidate ==
    cli_args.estimate =>
        /\ CandidateLines = <<>>
        /\ ~ Enumerating
        /\ cli_pc # "exit" => ENABLED NextCli
        /\ (cli_pc = "exit" /\ cli_exit = <<0>>) =>
               IF cli_prog = "roots" /\ cli_args.patterns
               THEN StdoutKinds = {"header", "listing"} /\ cli_stderr = <<>>
               ELSE /\ cli_stdout = <<>>
                    /\ "estimated_candidates" \in StderrKinds
                    /\ "generated" \notin StderrKinds

\* gen_arabic_passwords --estimate --mode full has returned.
C20_Witness ==
    /\ cli_prog = "passwords"
    /\ cli_args.estimate
    /\ cli_args.mode = "full"
    /\ cli_pc = "exit"
    /\ cli_exit = <<0>>
    /\ cli_stdout = <<>>
    /\ cli_stderr[4].kind = "estimated_candidates"

(***************************************************************************)
(* Claims about the two filters side by side (SpecFilter).                 *)
(***************************************************************************)
\* C22: the two implementations of is_likely_arabic_word differ only in
\* rules 4-5: on every non-empty string that has teh marbuta and alef
\* maksura nowhere but at the end and does not start with waw-hamza or
\* yeh-hamza they return the same verdict, and whatever the standalone
\* filter (filter_arabic.py) accepts, the generation-time filter
\* (gen_arabic_pairs.py) accepts too.
C22_FiltersDifferOnlyInRules45 ==
    (Returned(fa_ret) /\ Returned(gp_ret)) =>
        /\ (seq # <<>> /\ Rule4(seq) /\ Rule5(seq)) => fa_ret = gp_ret
        /\ Accepted(fa_ret) => Accepted(gp_ret)

\* Both verdicts are in on a string rules 4-5 allow that one of rules 1-3
\* refuses, and on one that both filters accept.
C22_Witness ==
    /\ Returned(fa_ret) /\ Returned(gp_ret)
    /\ seq # <<>> /\ Rule4(seq) /\ Rule5(seq)
    /\ Len(seq) = 3 /\ seq[2] = HAMZA
    /\ Rejected(fa_ret) /\ Rejected(gp_ret)

(***************************************************************************)
(* Claims about the two apply_pattern implementations (SpecPattern).       *)
(***************************************************************************)
\* The number of gemination markers at the head of pat, before any other
\* symbol.
LeadingMarkers(pat) ==
    Cardinality({k \in 1..Len(pat) : \A j \in 1..k : pat[j] = SHADDA})

\* C23: in gen_from_roots.apply_pattern a gemination marker that is the
\* first symbol of the pattern raises no error and produces no character:
\* the call returns what it returns for the pattern without that marker,
\* and for a 3-letter root the result is a string whose length is the
\* number of pattern symbols minus the number of leading markers.
C23_LeadingMarkerIsNoOp ==
    (Returned(gr_ret) /\ pattern # <<>> /\ pattern[1] = SHADDA) =>
        /\ gr_ret[1] = gen_from_roots_apply_pattern(root, Tail(pattern))
        /\ Len(root) = 3 =>
               /\ gr_ret[1].kind = "str"
               /\ Len(gr_ret[1].val) = Len(pattern) - LeadingMarkers(pattern)

C23_Witness ==
    /\ root = <<KAF, TEH, BEH>>
    /\ pattern = <<SHADDA, FEH, AIN>>
    /\ gr_ret = <<Str(<<KAF, TEH>>)>>

\* C30: gen_from_roots.apply_pattern and gen_arabic_passwords.apply_pattern
\* return the same result for every root and every pattern, patterns with
\* the gemination marker included.
C30_ApplyPatternsAgree ==
    (Returned(gr_ret) /\ Returned(pw_ret)) => gr_ret = pw_ret

(***************************************************************************)
(* Claims about the generator loops and the filter (SpecGen).              *)
(***************************************************************************)
\* C21: every word the root-pattern generators emit (gen_from_roots.main,
\* gen_arabic_passwords.generate_root_words) satisfies filter rules 1-3: it
\* has a vowel letter when its length is at least 4, no banned bigram and
\* no interior hamza.
C21_EmittedWordsPassRules123 ==
    \A i \in 1..Len(EmittedWords) :
        /\ Rule1(EmittedWords[i])
        /\ Rule2(EmittedWords[i])
        /\ Rule3(EmittedWords[i])

\* What the loop of program prog leaves on its output when run from pair k
\* with (seen, out) = st over the given roots, patterns and digit range.
RECURSIVE GenRunFrom(_, _, _, _, _, _)
GenRunFrom(prog, roots, patterns, digits, k, st) ==
    IF k >= Len(roots) * Len(patterns) THEN st.out
    ELSE LET rt == roots[(k \div Len(patterns)) + 1]
             pat == patterns[(k % Len(patterns)) + 1]
         IN  GenRunFrom(prog, roots, patterns, digits, k + 1,
                        IF prog = "roots"
                        THEN gr_main_body(rt, pat, st.seen, st.out, digits)
                        ELSE pw_generate_root_words_body(rt, pat, st.seen,
                                                         st.out))

HasThreeLetters(rt) == Len(rt) = 3

\* C24: a root of the wrong length is skipped silently by both generator
\* loops: the finished run's output is exactly the output of the run over
\* the same root list with the malformed roots removed (same words, same
\* order, nothing contributed by the malformed root).
C24_MalformedRootSkipped ==
    gen_pc = "done" =>
        gen_out = GenRunFrom(gen_prog, SelectSeq(gen_roots, HasThreeLetters),
                             gen_patterns, gen_digits, 0,
                             [seen |-> {}, out |-> <<>>])

\* A finished run whose root list has a 2-letter root ahead of a 3-letter one
\* that yields words.
C24_Witness ==
    /\ gen_pc = "done"
    /\ gen_roots = <<<<KAF, TEH>>, <<KAF, TEH, BEH>>>>
    /\ gen_out # <<>>

(***************************************************************************)
(* Claims about gen_arabic_passwords' year suffixes (SpecCli).             *)
(***************************************************************************)
\* text ends with an entry of YEARS (with or without '@' before it).
CarriesYearSuffix(text) ==
    \E i \in 1..Len(pw_YEARS) :
        /\ Len(text) >= Len(pw_YEARS[i])
        /\ SubSeq(text, Len(text) - Len(pw_YEARS[i]) + 1, Len(text))
               = pw_YEARS[i]

\* C25: in gen_arabic_passwords a candidate carries a year suffix only when
\* --year is given, in every mode (single, pairs, full): without --year
\* every candidate printed is a bare word or word pair, with or without
\* --at.
C25_YearSuffixOnlyWithYearFlag ==
    (cli_prog = "passwords" /\ ~ cli_args.year) =>
        \A i \in 1..Len(CandidateLines) :
            ~ CarriesYearSuffix(CandidateLines[i].text)

(***************************************************************************)
(* Claims about generate_words (SpecWords).                                *)
(***************************************************************************)
OverLastChars(w) ==
    \A i \in 1..Len(w) : \E j \in 1..Len(gp_LAST_CHARS) : gp_LAST_CHARS[j] = w[i]

\* C26: generate_words(length) yields, for every length >= 1, every string
\* of that length over the letters of LAST_CHARS that
\* gen_arabic_pairs.is_likely_arabic_word accepts.
C26_EveryAcceptedWordYielded ==
    (/\ gw_pc = "done"
     /\ gw_length >= 1
     /\ Len(gw_target) = gw_length
     /\ OverLastChars(gw_target)
     /\ gen_arabic_pairs_is_likely_arabic_word(gw_target)) => gw_hit

\* C29: every word that gen_arabic_pairs.generate_words(length) yields, for
\* every length >= 1, is accepted by the strict standalone filter
\* filter_arabic.is_likely_arabic_word.
C29_YieldedWordsPassStrictFilter ==
    gw_length >= 1 =>
        \A i \in 1..Len(gw_batch) :
            filter_arabic_is_likely_arabic_word(gw_batch[i])

\* A pass of generate_words(3) has yielded words, one ending in teh marbuta
\* and one with a seated hamza in the middle.
C29_Witness ==
    /\ gw_length = 3
    /\ \E i \in 1..Len(gw_batch) : gw_batch[i][3] = TEH_MARBUTA
    /\ \E i \in 1..Len(gw_batch) : gw_batch[i][2] = YEH_HAMZA

(***************************************************************************)
(* Claims about the targeted generators (SpecTargeted).                    *)
(***************************************************************************)
\* The generator that the latest pass of main's loop ran.
LatestGenerator == IF tg_g = 0 THEN "none" ELSE tg_gens[tg_g]

\* The digit strings of width w among those the loops of the model visit:
\* the numbers below 10^w, zero-padded to w characters.
ZeroPadded(d, w) ==
    [i \in 1..w |-> DIGITS[((d \div PyPow(10, w - i)) % 10) + 1]]
DigitStringsOfWidth(w) ==
    {ZeroPadded(CutRange(0, PyPow(10, w), 1)[i], w) :
        i \in 1..Len(CutRange(0, PyPow(10, w), 1))}

\* C27: generate_name_digits yields, in gen_targeted.py as in
\* gen_targeted_arabic.py, for every name the name followed by each digit
\* string of 1 to 4 digits (zero-padded to its width) whose total length
\* lies in 8..20.
C27_NameDigitsOneToFour ==
    LatestGenerator = "name_digits" =>
        \A i \in 1..Len(tg_names) : \A w \in 1..4 :
            (8 <= Len(tg_names[i]) + w /\ Len(tg_names[i]) + w <= 20) =>
                \A ds \in DigitStringsOfWidth(w) :
                    tg_names[i] \o ds \in tg_yielded

\* C28: every password line printed by gen_targeted.py and
\* gen_targeted_arabic.py has between 8 and 20 characters inclusive, for
\* every combination of the flags and for every generator of the run.
C28_PrintedLengthWithinLimits ==
    \A pwd \in tg_printed : 8 <= Len(pwd) /\ Len(pwd) <= 20

\* A generator of gen_targeted_arabic.py, run with cities and --extended, has
\* printed a line of 8 and a line of 20 characters while two names followed
\* by the year 2020, which the same generator builds, exceed 20 characters.
C28_Witness ==
    /\ tg_prog = "targeted_arabic"
    /\ tg_args.cities /\ tg_args.extended
    /\ LatestGenerator = "name_name_year"
    /\ \E pwd \in tg_printed : Len(pwd) = 8
    /\ \E pwd \in tg_printed : Len(pwd) = 20
    /\ \E i, j \in 1..Len(tg_names) :
           Len(tg_names[i] \o tg_names[j] \o <<"2", "0", "2", "0">>) > 20

====
